---- MODULE Spec2Model ----
(***************************************************************************)
(* Balance aggregation of the custodial wallet backend.                    *)
(*                                                                         *)
(*   BalanceService   (src/src/services/balance-service.ts)                *)
(*       getBalance / getBalances over the per-chain RPC clients           *)
(*   StellarServices  (src/unnamed/part_002)                               *)
(*       getBalancesForAllNetworks with the testnet Friendbot recovery     *)
(*   BalanceController.getBalance behind GET /native                       *)
(*       (src/unnamed/part_001, src/unnamed/part_003)                      *)
(*   WalletService    (src/src/services/balance-service.ts)                *)
(*       generation, recovery, import, address validation, batches;        *)
(*       its calls are the behaviours of SpecWallet                        *)
(*                                                                         *)
(* Every await of the code is a step boundary: an outbound call is issued  *)
(* by one action and answered by another, the answer being chosen by the   *)
(* environment.  In Spec one request runs at a time.                       *)
(***************************************************************************)
EXTENDS Integers, Sequences, FiniteSets, TLC

\* ------------------------------------------------------------------ bounds
NumEvmCalls == 2
NumSessions == 2
MaxReq == 2
MaxNets == 2

\* --------------------------------------------------------------- utilities
Range(s) == {s[i] : i \in 1..Len(s)}

SeqsUpTo(S, n) == UNION {[1..k -> S] : k \in 0..n}

Zeros(n) == [i \in 1..n |-> 0]

\* ---------------------------------------------------- chain registry (EVM)
\* config/chains.ts: the static table of chain configs, in declaration order.
CHAINS ==
    << [chainId |-> 8453, name |-> "Base", testnet |-> FALSE,
        symbol |-> "ETH", decimals |-> 18],
       [chainId |-> 11155111, name |-> "Sepolia", testnet |-> TRUE,
        symbol |-> "ETH", decimals |-> 18] >>

\* getChainConfig(chainId): the config registered under chainId, or undefined.
\* An optional value is the set of what is there: {} is undefined.
getChainConfig(chainId) == {cfg \in Range(CHAINS) : cfg.chainId = chainId}

\* BalanceService.createPublicClients: one client per config, keyed by the
\* chain id; the Map keeps insertion order.
createPublicClients == [k \in 1..Len(CHAINS) |-> CHAINS[k].chainId]

\* ------------------------------------------------------- inputs, responses
Addresses == {"0xa5E0", "0x71C7"}

\* chain ids a caller may ask for: the registered ones and an unregistered one
ReqChainIds == Range(createPublicClients) \cup {999999}

\* balances the RPC may answer, as the decimal digits of the bigint
\* (0, 0.125 ETH, 2 ETH in wei)
RpcBalances == { <<0>>, <<1, 2, 5>> \o Zeros(15), <<2>> \o Zeros(18) }

\* causes a client.getBalance call may reject with
RpcErrors == {"HttpRequestError", "TimeoutError"}

\* ----------------------------------------------------------------- state
VARIABLES publicClients, evm, stl, native, wal, auth

vars == <<publicClients, evm, stl, native, wal, auth>>

EvmCalls == 1..NumEvmCalls
Sessions == 1..NumSessions

\* ------------------------------------------------------ BalanceService
\* getClient(chainId): this.publicClients.get(chainId), {} when absent.
getClient(chainId) == {id \in Range(publicClients) : id = chainId}

RECURSIVE StripTrailingZeros(_)
StripTrailingZeros(ds) ==
    IF ds # <<>> /\ ds[Len(ds)] = 0
    THEN StripTrailingZeros(SubSeq(ds, 1, Len(ds) - 1))
    ELSE ds

\* viem formatUnits(value, decimals) on the digits of a non-negative value:
\* pad to `decimals` digits, split, drop the fraction's trailing zeros.
formatUnits(value, decimals) ==
    LET display == IF Len(value) < decimals
                   THEN Zeros(decimals - Len(value)) \o value
                   ELSE value
        integer == SubSeq(display, 1, Len(display) - decimals)
        fraction == StripTrailingZeros(
                        SubSeq(display, Len(display) - decimals + 1, Len(display)))
    IN  [int |-> IF integer = <<>> THEN <<0>> ELSE integer, frac |-> fraction]

\* getBalance's guard before the query: the client, then the config.
UnsupportedChainError(chainId) ==
    [msg |-> "Chain with ID ${chainId} is not supported", args |-> <<chainId>>]

ConfigNotFoundError(chainId) ==
    [msg |-> "Chain configuration not found for chain ID ${chainId}",
     args |-> <<chainId>>]

\* the errors getBalance throws before any query ({} when it goes on to query)
GetBalanceGuard(chainId) ==
    IF getClient(chainId) = {} THEN {UnsupportedChainError(chainId)}
    ELSE IF getChainConfig(chainId) = {} THEN {ConfigNotFoundError(chainId)}
    ELSE {}

\* variant: the entry is built from the first config of the registry
GetBalanceEntry_FirstConfig(address, chainId, balance) ==
    [balance |-> balance,
     formatted |-> formatUnits(balance, CHAINS[1].decimals),
     chainId |-> CHAINS[1].chainId,
     currency |-> CHAINS[1].symbol,
     decimals |-> CHAINS[1].decimals]

\* the entry getBalance returns when client.getBalance resolved with `balance`
GetBalanceEntry(address, chainId, balance) ==
    LET chainConfig == CHOOSE cfg \in getChainConfig(chainId) : TRUE
    IN  [balance |-> balance,
         formatted |-> formatUnits(balance, chainConfig.decimals),
         chainId |-> chainId,
         currency |-> chainConfig.symbol,
         decimals |-> chainConfig.decimals]

\* the error getBalance throws when client.getBalance rejected with `cause`
BalanceFetchError(address, chainId, cause) ==
    [msg |-> "Failed to get balance for address ${address} on chain ${chainId}: ${error}",
     args |-> <<address, chainId, cause>>]

\* getBalances: { ...balance, chainName }
WithChainName(entry, chainId) ==
    LET chainConfig == getChainConfig(chainId)
    IN  [balance |-> entry.balance,
         formatted |-> entry.formatted,
         chainId |-> entry.chainId,
         currency |-> entry.currency,
         decimals |-> entry.decimals,
         chainName |-> IF chainConfig = {} THEN "Unknown Chain"
                       ELSE (CHOOSE cfg \in chainConfig : TRUE).name]

\* variant: no default for an omitted list (chainIds || [])
ChainsToCheck_NoDefault(chainIds) == chainIds.list

\* the chains getBalances walks: chainIds || Array.from(publicClients.keys())
ChainsToCheck(chainIds) ==
    IF chainIds.given THEN chainIds.list ELSE publicClients

\* the state of one call: where it stands, its arguments and locals, what
\* it returned or threw, the queries it sent out and what console.error got
EvmIdle ==
    [pc |-> "idle", op |-> "none", address |-> "", chainId |-> 0,
     chainIds |-> [given |-> FALSE, list |-> <<>>],
     chainsToCheck |-> <<>>, i |-> 0, results |-> <<>>, outcome |-> <<>>,
     queries |-> <<>>, logged |-> <<>>]

\* the chainIds argument: omitted, or a list of at most MaxReq ids
ChainIdsArgs ==
    {[given |-> FALSE, list |-> <<>>]}
        \cup [given : {TRUE}, list : SeqsUpTo(ReqChainIds, MaxReq)]

\* one request at a time: a call starts when no other call is in progress
NoCallInProgress ==
    /\ \A c \in EvmCalls : evm[c].pc = "idle"
    /\ \A s \in Sessions : stl[s].pc = "idle"
    /\ \A c \in EvmCalls : native[c].pc = "idle"

\* the query is issued: await client.getBalance({ address })
QueryIssued(st, address, chainId, pos) ==
    [st EXCEPT !.pc = "rpc",
               !.queries = Append(@, [address |-> address, chainId |-> chainId,
                                      pos |-> pos, state |-> "pending",
                                      value |-> <<>>, cause |-> ""])]

\* the query is answered
QueryAnswered(queries, state, value, cause) ==
    [queries EXCEPT ![Len(queries)] =
        [@ EXCEPT !.state = state, !.value = value, !.cause = cause]]

\* getBalance after its await resolved: the entry it returns
Returned(st, balance) ==
    [st EXCEPT !.pc = "returned",
               !.outcome = GetBalanceEntry(st.address, st.chainId, balance),
               !.queries = QueryAnswered(@, "resolved", balance, "")]

\* getBalance after its await rejected: the error it throws
Thrown(st, cause) ==
    [st EXCEPT !.pc = "threw",
               !.outcome = BalanceFetchError(st.address, st.chainId, cause),
               !.queries = QueryAnswered(@, "rejected", <<>>, cause)]

\* variant: the client is looked up only after the query was sent
GetBalanceStarted_QueryFirst(address, chainId) ==
    QueryIssued([EvmIdle EXCEPT !.op = "getBalance", !.address = address,
                                !.chainId = chainId],
                address, chainId, 0)

\* getBalance(address, chainId) called on its own, up to its first await
\* or to the throw before it
GetBalanceStarted(address, chainId) ==
    LET st == [EvmIdle EXCEPT !.op = "getBalance", !.address = address,
                              !.chainId = chainId]
    IN  IF GetBalanceGuard(chainId) # {}
        THEN [st EXCEPT !.pc = "threw",
                        !.outcome = CHOOSE e \in GetBalanceGuard(chainId) : TRUE]
        ELSE QueryIssued(st, address, chainId, 0)

\* getBalances(address, chainIds?) up to the loop
GetBalancesStarted(address, chainIds) ==
    [EvmIdle EXCEPT !.pc = "loop", !.op = "getBalances", !.address = address,
                    !.chainIds = chainIds,
                    !.chainsToCheck = ChainsToCheck(chainIds), !.i = 1]

\* catch (error) { console.error(...); continue; }
CatchAndContinue(st, chainId, error) ==
    [st EXCEPT !.pc = "loop",
               !.logged = Append(@, [chainId |-> chainId, error |-> error]),
               !.i = @ + 1]

\* one turn of the loop, from its head to getBalance's await, or to the
\* catch of an error getBalance threw before its query
Iterated(st) ==
    LET chainId == st.chainsToCheck[st.i]
    IN  IF GetBalanceGuard(chainId) # {}
        THEN CatchAndContinue(st, chainId,
                              CHOOSE e \in GetBalanceGuard(chainId) : TRUE)
        ELSE QueryIssued(st, st.address, chainId, st.i)

\* variant: results.unshift instead of results.push
Pushed_Unshifted(st, balance) ==
    LET chainId == st.chainsToCheck[st.i]
    IN  [st EXCEPT !.pc = "loop",
                   !.queries = QueryAnswered(@, "resolved", balance, ""),
                   !.results = <<WithChainName(
                                     GetBalanceEntry(st.address, chainId, balance),
                                     chainId)>> \o @,
                   !.i = @ + 1]

\* the awaited getBalance returned: results.push({ ...balance, chainName })
Pushed(st, balance) ==
    LET chainId == st.chainsToCheck[st.i]
    IN  [st EXCEPT !.pc = "loop",
                   !.queries = QueryAnswered(@, "resolved", balance, ""),
                   !.results = Append(@,
                       WithChainName(GetBalanceEntry(st.address, chainId, balance),
                                     chainId)),
                   !.i = @ + 1]

\* variant: results is a field of the service, not a local of the call:
\* every getBalances call in progress has the entry in its list
ResultsPushed_SharedList(calls, c, balance) ==
    [d \in DOMAIN calls |->
        IF d = c THEN Pushed(calls[c], balance)
        ELSE IF calls[d].op = "getBalances" /\ calls[d].pc \in {"loop", "rpc"}
        THEN [calls[d] EXCEPT !.results = Pushed(calls[c], balance).results]
        ELSE calls[d]]

\* `const results = []` is a local of the call: the push of call c touches
\* the list of c and of no other call
ResultsPushed(calls, c, balance) == [calls EXCEPT ![c] = Pushed(@, balance)]

\* variant: the loop without its try/catch; the wrapped error ends the call
Skipped_Rethrown(st, cause) ==
    [st EXCEPT !.pc = "threw",
               !.outcome = BalanceFetchError(st.address, st.chainsToCheck[st.i],
                                             cause),
               !.queries = QueryAnswered(@, "rejected", <<>>, cause)]

\* variant: the catch retries the chain instead of continuing
Skipped_Retried(st, cause) ==
    QueryIssued([st EXCEPT !.queries = QueryAnswered(@, "rejected", <<>>, cause)],
                st.address, st.chainsToCheck[st.i], st.i)

\* the awaited getBalance threw the wrapped error: log it and continue
Skipped(st, cause) ==
    LET chainId == st.chainsToCheck[st.i]
    IN  CatchAndContinue(
            [st EXCEPT !.queries = QueryAnswered(@, "rejected", <<>>, cause)],
            chainId, BalanceFetchError(st.address, chainId, cause))

GetBalanceCall(c) ==
    /\ NoCallInProgress
    /\ \E address \in Addresses, chainId \in ReqChainIds :
           evm' = [evm EXCEPT ![c] = GetBalanceStarted(address, chainId)]
    /\ UNCHANGED <<publicClients, stl, native, wal, auth>>

\* client.getBalance resolved: getBalance returns the entry
GetBalanceResolved(c) ==
    /\ evm[c].pc = "rpc" /\ evm[c].op = "getBalance"
    /\ \E balance \in RpcBalances :
           evm' = [evm EXCEPT ![c] = Returned(@, balance)]
    /\ UNCHANGED <<publicClients, stl, native, wal, auth>>

\* client.getBalance rejected: getBalance throws the wrapped error
GetBalanceRejected(c) ==
    /\ evm[c].pc = "rpc" /\ evm[c].op = "getBalance"
    /\ \E cause \in RpcErrors :
           evm' = [evm EXCEPT ![c] = Thrown(@, cause)]
    /\ UNCHANGED <<publicClients, stl, native, wal, auth>>

GetBalancesCall(c) ==
    /\ NoCallInProgress
    /\ \E address \in Addresses, chainIds \in ChainIdsArgs :
           evm' = [evm EXCEPT ![c] = GetBalancesStarted(address, chainIds)]
    /\ UNCHANGED <<publicClients, stl, native, wal, auth>>

GetBalancesIterate(c) ==
    /\ evm[c].pc = "loop" /\ evm[c].op = "getBalances"
    /\ evm[c].i <= Len(evm[c].chainsToCheck)
    /\ evm' = [evm EXCEPT ![c] = Iterated(@)]
    /\ UNCHANGED <<publicClients, stl, native, wal, auth>>

GetBalancesResolved(c) ==
    /\ evm[c].pc = "rpc" /\ evm[c].op = "getBalances"
    /\ \E balance \in RpcBalances : evm' = ResultsPushed(evm, c, balance)
    /\ UNCHANGED <<publicClients, stl, native, wal, auth>>

GetBalancesRejected(c) ==
    /\ evm[c].pc = "rpc" /\ evm[c].op = "getBalances"
    /\ \E cause \in RpcErrors : evm' = [evm EXCEPT ![c] = Skipped(@, cause)]
    /\ UNCHANGED <<publicClients, stl, native, wal, auth>>

\* the loop is over: return results
GetBalancesReturn(c) ==
    /\ evm[c].pc = "loop" /\ evm[c].op = "getBalances"
    /\ evm[c].i > Len(evm[c].chainsToCheck)
    /\ evm' = [evm EXCEPT ![c].pc = "returned", ![c].outcome = evm[c].results]
    /\ UNCHANGED <<publicClients, stl, native, wal, auth>>

\* getSupportedChains(): Object.values(CHAINS) mapped to what is published
SupportedChains ==
    [k \in 1..Len(CHAINS) |->
        [chainId |-> CHAINS[k].chainId, name |-> CHAINS[k].name,
         testnet |-> CHAINS[k].testnet, currency |-> CHAINS[k].symbol]]

\* getSupportedChains(): synchronous, it reads the registry and returns
GetSupportedChainsCall(c) ==
    /\ NoCallInProgress
    /\ evm' = [evm EXCEPT ![c] =
                  [EvmIdle EXCEPT !.pc = "returned", !.op = "getSupportedChains",
                                  !.outcome = SupportedChains]]
    /\ UNCHANGED <<publicClients, stl, native, wal, auth>>

\* the caller has the outcome; the next request may come (when the caller is
\* the controller, NativeRespond takes the outcome instead)
EvmDone(c) ==
    /\ evm[c].pc \in {"returned", "threw"}
    /\ native[c].pc # "awaiting"
    /\ evm' = [evm EXCEPT ![c] = EvmIdle]
    /\ UNCHANGED <<publicClients, stl, native, wal, auth>>

\* ------------------------------- BalanceController.getBalance via /native
\* the decimal digits, and the numeral of a natural number as characters
Digits == <<"0", "1", "2", "3", "4", "5", "6", "7", "8", "9">>

DigitOf(ch) == (CHOOSE k \in 1..10 : Digits[k] = ch) - 1

RECURSIVE Numeral(_)
Numeral(n) ==
    IF n < 10 THEN <<Digits[n + 1]>>
    ELSE Numeral(n \div 10) \o <<Digits[(n % 10) + 1]>>

\* a JS number, as far as the handler tells numbers apart: NaN or an integer
NaN == [nan |-> TRUE, value |-> 0]

Num(value) == [nan |-> FALSE, value |-> value]

\* the leading run of decimal digits of a text
RECURSIVE DigitPrefix(_)
DigitPrefix(text) ==
    IF text = <<>> \/ Head(text) \notin Range(Digits) THEN <<>>
    ELSE <<Head(text)>> \o DigitPrefix(Tail(text))

RECURSIVE DigitsValue(_, _)
DigitsValue(ds, acc) ==
    IF ds = <<>> THEN acc
    ELSE DigitsValue(Tail(ds), 10 * acc + DigitOf(Head(ds)))

\* parseInt(text, 10): an optional sign, then the longest run of digits;
\* NaN when there is no digit (the texts here carry no white space)
parseInt(text) ==
    LET signed == text # <<>> /\ Head(text) \in {"-", "+"}
        body == IF signed THEN Tail(text) ELSE text
        ds == DigitPrefix(body)
    IN  IF ds = <<>> THEN NaN
        ELSE IF signed /\ Head(text) = "-" THEN Num(0 - DigitsValue(ds, 0))
        ELSE Num(DigitsValue(ds, 0))

\* the truthiness of a JS number: NaN and 0 are falsy
Truthy(n) == ~n.nan /\ n.value # 0

\* the chainId query parameter: absent, or some text
NoChainIdParam == [given |-> FALSE, text |-> <<>>]

ChainIdParams ==
    {NoChainIdParam}
        \cup [given : {TRUE},
              text : {Numeral(id) : id \in ReqChainIds \cup {0}}
                         \cup {<<>>, <<"a", "b", "c">>, <<"-", "1">>}]

\* the walletAddress query parameter; the members of Addresses stand for
\* 42-character texts that begin with 0x, "a5E0" for one that does not
WalletAddressParams == Addresses \cup {"a5E0"}

HasAddressFormat(walletAddress) == walletAddress \in Addresses

\* the route: chainId ? parseInt(chainId as string, 10) : undefined
\* (an empty text is falsy); the optional number is the set of what is there
ChainIdNumber(chainId) ==
    IF chainId.given /\ chainId.text # <<>> THEN {parseInt(chainId.text)}
    ELSE {}

DefaultChainId == 8453

\* const targetChainId = chainId || 8453
TargetChainId(chainId) ==
    IF chainId # {} /\ Truthy(CHOOSE n \in chainId : TRUE)
    THEN CHOOSE n \in chainId : TRUE
    ELSE Num(DefaultChainId)

\* the config of a number: none for NaN
ConfigOf(n) == IF n.nan THEN {} ELSE getChainConfig(n.value)

ApiError(status, code) == [success |-> FALSE, status |-> status, code |-> code]

\* one request at the endpoint: where it stands, its parameters, the chain
\* it settled on and the response
NativeIdle ==
    [pc |-> "idle", walletAddress |-> "", chainId |-> NoChainIdParam,
     targetChainId |-> NaN, response |-> <<>>]

\* the handler up to the await of balanceService.getBalance, or to the
\* ApiError thrown before it
ControllerEntered(walletAddress, chainId) ==
    LET st == [NativeIdle EXCEPT !.walletAddress = walletAddress,
                                 !.chainId = chainId]
        targetChainId == TargetChainId(ChainIdNumber(chainId))
    IN  IF ~HasAddressFormat(walletAddress)
        THEN [st EXCEPT !.pc = "responded",
                        !.response = ApiError(400, "INVALID_ADDRESS")]
        ELSE IF ConfigOf(targetChainId) = {}
        THEN [st EXCEPT !.pc = "responded", !.targetChainId = targetChainId,
                        !.response = ApiError(400, "UNSUPPORTED_CHAIN")]
        ELSE [st EXCEPT !.pc = "awaiting", !.targetChainId = targetChainId]

\* the handler after the await: the response body, or BALANCE_ERROR for an
\* error that is no ApiError
ControllerResponded(st, call) ==
    IF call.pc = "returned"
    THEN [st EXCEPT !.pc = "responded",
              !.response =
                  [success |-> TRUE,
                   walletAddress |-> st.walletAddress,
                   nativeBalance |->
                       [balance |-> call.outcome.balance,
                        formatted |-> call.outcome.formatted,
                        currency |-> call.outcome.currency,
                        decimals |-> call.outcome.decimals],
                   chainId |-> st.targetChainId.value,
                   chainName |->
                       (CHOOSE cfg \in ConfigOf(st.targetChainId) : TRUE).name]]
    ELSE [st EXCEPT !.pc = "responded",
                    !.response = ApiError(500, "BALANCE_ERROR")]

\* GET /native?walletAddress=..&chainId=..
NativeRequest(c) ==
    /\ NoCallInProgress
    /\ \E walletAddress \in WalletAddressParams, chainId \in ChainIdParams :
           LET st == ControllerEntered(walletAddress, chainId)
           IN  /\ native' = [native EXCEPT ![c] = st]
               /\ evm' = IF st.pc = "awaiting"
                         THEN [evm EXCEPT ![c] =
                                  GetBalanceStarted(walletAddress,
                                                    st.targetChainId.value)]
                         ELSE evm
    /\ UNCHANGED <<publicClients, stl, wal, auth>>

\* balanceService.getBalance settled: the handler answers
NativeRespond(c) ==
    /\ native[c].pc = "awaiting"
    /\ evm[c].pc \in {"returned", "threw"}
    /\ native' = [native EXCEPT ![c] = ControllerResponded(@, evm[c])]
    /\ evm' = [evm EXCEPT ![c] = EvmIdle]
    /\ UNCHANGED <<publicClients, stl, wal, auth>>

\* res.json(result) or next(error) has run; the next request may come
NativeDone(c) ==
    /\ native[c].pc = "responded"
    /\ native' = [native EXCEPT ![c] = NativeIdle]
    /\ UNCHANGED <<publicClients, evm, stl, wal, auth>>

\* ------------------------------------------------------ StellarServices
\* stellar_horizon_rpc: the networks that have a Horizon endpoint
stellar_horizon_rpc == {"testnet", "futurenet", "mainnet"}

\* stellar_horizon_rpc is an object literal: besides its own keys, a lookup
\* answers the names inherited from Object.prototype with a function, which
\* is truthy ("constructor" stands for them)
InheritedKeys == {"constructor"}

\* network names a caller may ask for; "devnet" has no endpoint
NetworkNames == stellar_horizon_rpc \cup {"devnet"} \cup InheritedKeys

\* secrets a caller may pass; Keypair.fromSecret accepts the first only
Secrets == {"SBBU3V25", "SDX7QK2M", "not-a-secret"}

ValidSecrets == {"SBBU3V25", "SDX7QK2M"}

\* keypair.publicKey(): fixed by the secret
PublicKeyOf(secret) == <<"G", secret>>

\* getChainId(network): chainIds[network] || 999
getChainId(network) ==
    CASE network = "mainnet" -> 1
      [] network = "testnet" -> 2
      [] network = "futurenet" -> 3
      [] OTHER -> 999

\* network.charAt(0).toUpperCase() + network.slice(1)
Capitalize(network) ==
    CASE network = "mainnet" -> "Mainnet"
      [] network = "testnet" -> "Testnet"
      [] network = "futurenet" -> "Futurenet"
      [] network = "devnet" -> "Devnet"
      [] OTHER -> network

\* the constructor's map callback for one supported network name
NetworkConfig(network) ==
    [chainId |-> getChainId(network),
     chainName |-> <<"Stellar", Capitalize(network)>>,
     server |-> network]

\* requestedNetworks || ["testnet"]
NetworksToUse(requestedNetworks) ==
    IF requestedNetworks.given THEN requestedNetworks.list ELSE <<"testnet">>

\* a decimal string: integer digits and fraction digits
Dec(int, frac) == [int |-> int, frac |-> frac]

\* parseFloat(balance).toFixed(7) on a decimal string of at most 7 fraction
\* digits, within the range doubles hold exactly
ToFixed7(balance) ==
    Dec(balance.int,
        IF Len(balance.frac) >= 7 THEN SubSeq(balance.frac, 1, 7)
        ELSE balance.frac \o Zeros(7 - Len(balance.frac)))

\* balance line items Horizon may report: native, and an issued asset
LineItems ==
    { [balance |-> Dec(<<1, 0, 0, 0, 0>>, Zeros(7)),
       asset_type |-> "native", asset_code |-> ""],
      [balance |-> Dec(<<2, 5>>, <<5>> \o Zeros(6)),
       asset_type |-> "credit_alphanum4", asset_code |-> "USDC"] }

Native == CHOOSE item \in LineItems : item.asset_type = "native"

Issued4 == CHOOSE item \in LineItems : item.asset_type # "native"

\* account.balances of a loaded account, in ledger order
AccountBalances ==
    { <<Native>>, <<Native, Issued4>>, <<Issued4, Native>>,
      <<Issued4, Native, Issued4>> }

\* errors loadAccount may reject with: error.response.status (0: no
\* response at all) and error.message
LoadErrors ==
    { [status |-> 404, message |-> "Request failed with status code 404"],
      [status |-> 0, message |-> "Not Found"],
      [status |-> 500, message |-> "Internal Server Error"],
      [status |-> 0, message |-> "Network Error"] }

NoError == [status |-> 0, message |-> ""]

\* error.message.includes('Not Found')
MessageIncludesNotFound(message) ==
    message \in {"Not Found", "Resource Not Found"}

\* variant: every load error is taken for account-not-found
IsAccountNotFound_AnyError(error) == TRUE

\* error.response?.status === 404 || error.message.includes('Not Found')
IsAccountNotFound(error) ==
    error.status = 404 \/ MessageIncludesNotFound(error.message)

\* variant: the catch without the testnet test
HasFriendbot_AnyNetwork(network) == TRUE

\* network.chainId === 2: only testnet has friendbot
HasFriendbot(network) == network.chainId = 2

\* variant: every line item tagged with the native currency
BalanceEntry_AlwaysXLM(network, balanceEntry) ==
    [balance |-> balanceEntry.balance,
     formatted |-> ToFixed7(balanceEntry.balance),
     chainId |-> network.chainId,
     currency |-> "XLM",
     decimals |-> 7,
     chainName |-> network.chainName]

\* the forEach callback: one entry for one balance line item
BalanceEntry(network, balanceEntry) ==
    [balance |-> balanceEntry.balance,
     formatted |-> ToFixed7(balanceEntry.balance),
     chainId |-> network.chainId,
     currency |-> IF balanceEntry.asset_type = "native" THEN "XLM"
                  ELSE balanceEntry.asset_code,
     decimals |-> 7,
     chainName |-> network.chainName]

\* account.balances.forEach(...): the entries pushed, in ledger order
BalanceEntries(network, balances) ==
    [k \in 1..Len(balances) |-> BalanceEntry(network, balances[k])]

\* the placeholder pushed in the else branch of the catch
PlaceholderEntry(network) ==
    [balance |-> Dec(<<0>>, <<>>),
     formatted |-> Dec(<<0>>, Zeros(7)),
     chainId |-> network.chainId,
     currency |-> "XLM",
     decimals |-> 7,
     chainName |-> network.chainName]

\* setTimeout(resolve, 3000)
FriendbotSettleMs == 3000

StlIdle ==
    [pc |-> "idle",
     args |-> [privateKey |-> "",
               requestedNetworks |-> [given |-> FALSE, list |-> <<>>]],
     keypair |-> "", networks |-> <<>>, n |-> 0,
     allBalances |-> <<>>, outcome |-> <<>>, outbound |-> <<>>]

\* the requestedNetworks argument: omitted, or at most MaxNets names
RequestedNetworksArgs ==
    {[given |-> FALSE, list |-> <<>>]}
        \cup [given : {TRUE}, list : SeqsUpTo(NetworkNames, MaxNets)]

\* an outbound call as issued, and as answered
Issued(call, n, arg) ==
    [call |-> call, net |-> n, arg |-> arg, state |-> "pending",
     error |-> NoError, value |-> <<>>]

Answer(outbound, state, error, value) ==
    [outbound EXCEPT ![Len(outbound)] =
        [@ EXCEPT !.state = state, !.error = error, !.value = value]]

\* the lookup stellar_horizon_rpc[network] is falsy: the name is neither an
\* own key nor an inherited one
RpcUrlMissing(network) ==
    network \notin stellar_horizon_rpc /\ network \notin InheritedKeys

\* what the map callback throws for one name ({} when it returns a config):
\* the unsupported-network error for a missing URL; for an inherited name the
\* test passes and Horizon.Server rejects the URL that is no string
MapCallbackThrows(network) ==
    IF RpcUrlMissing(network)
    THEN {[msg |-> "Unsupported network: ${network}", args |-> <<network>>]}
    ELSE IF network \in InheritedKeys
    THEN {[msg |-> "invalid input", args |-> <<>>]}
    ELSE {}

\* constructor(privateKey, requestedNetworks?)
Constructed(privateKey, requestedNetworks) ==
    LET st == [StlIdle EXCEPT !.args = [privateKey |-> privateKey,
                                        requestedNetworks |-> requestedNetworks]]
        networksToUse == NetworksToUse(requestedNetworks)
        bad == {k \in 1..Len(networksToUse) :
                   MapCallbackThrows(networksToUse[k]) # {}}
        first == CHOOSE k \in bad : \A j \in bad : k <= j
    IN  IF privateKey \notin ValidSecrets
        THEN [st EXCEPT !.pc = "ctorThrew",
                  !.outcome = [msg |-> "invalid encoded string", args |-> <<>>]]
        ELSE IF bad # {}
        THEN [st EXCEPT !.pc = "ctorThrew",
                  !.outcome = CHOOSE e \in MapCallbackThrows(networksToUse[first]) :
                                  TRUE]
        ELSE [st EXCEPT !.pc = "constructed", !.keypair = privateKey,
                  !.networks = [k \in 1..Len(networksToUse) |->
                                    NetworkConfig(networksToUse[k])]]

\* variant: the loop takes each network off the list (networks.shift())
NextNetwork_Shift(st) ==
    [st EXCEPT !.pc = "loop", !.n = 1, !.networks = Tail(@)]

\* the loop goes on to the network after the current one
NextNetwork(st) == [st EXCEPT !.pc = "loop", !.n = @ + 1]

\* try: await network.server.loadAccount(publicKey)
LoadIssued(st) ==
    [st EXCEPT !.pc = "load",
               !.outbound = Append(@, Issued("loadAccount", st.n,
                                             PublicKeyOf(st.keypair)))]

\* the load resolved: push one entry per balance line item
LoadResolved(st, balances) ==
    NextNetwork([st EXCEPT
        !.allBalances = @ \o BalanceEntries(st.networks[st.n], balances),
        !.outbound = Answer(@, "resolved", NoError, balances)])

\* catch (error): not found on testnet goes to friendbot, up to its fetch;
\* anything else pushes the placeholder
LoadRejected(st, error) ==
    LET network == st.networks[st.n]
        caught == [st EXCEPT !.outbound = Answer(@, "rejected", error, <<>>)]
    IN  IF IsAccountNotFound(error) /\ HasFriendbot(network)
        THEN [caught EXCEPT !.pc = "fetch",
                 !.outbound = Append(@, Issued("friendbot", st.n,
                                               PublicKeyOf(st.keypair)))]
        ELSE NextNetwork([caught EXCEPT
                 !.allBalances = Append(@, PlaceholderEntry(network))])

\* variant: fundWithFriendbot without the response.ok test
FetchResolved_IgnoreStatus(st, ok) ==
    [st EXCEPT !.pc = "json",
               !.outbound = Append(
                   Answer(@, "resolved",
                          [status |-> IF ok THEN 200 ELSE 400, message |-> ""],
                          <<>>),
                   Issued("response.json", st.n, <<>>))]

\* fundWithFriendbot: the fetch resolved; !response.ok throws into its own
\* catch, which returns false, and the caller skips the retry
FetchResolved(st, ok) ==
    LET got == [st EXCEPT !.outbound =
                   Answer(@, "resolved",
                          [status |-> IF ok THEN 200 ELSE 400, message |-> ""],
                          <<>>)]
    IN  IF ok
        THEN [got EXCEPT !.pc = "json",
                 !.outbound = Append(@, Issued("response.json", st.n, <<>>))]
        ELSE NextNetwork(got)

\* variant: a faucet call that failed pushes the placeholder
FetchRejected_Placeholder(st) ==
    NextNetwork([st EXCEPT
        !.allBalances = Append(@, PlaceholderEntry(st.networks[st.n])),
        !.outbound = Answer(@, "rejected",
                            [status |-> 0, message |-> "fetch failed"], <<>>)])

\* fundWithFriendbot: the fetch rejected; returns false
FetchRejected(st) ==
    NextNetwork([st EXCEPT !.outbound =
        Answer(@, "rejected", [status |-> 0, message |-> "fetch failed"], <<>>)])

\* variant: the delay is started and not awaited, the retry goes out at once
JsonResolved_DelayNotAwaited(st) ==
    [st EXCEPT !.pc = "retry",
               !.outbound = Append(Append(Answer(@, "resolved", NoError, <<>>),
                                          Issued("setTimeout", st.n,
                                                 FriendbotSettleMs)),
                                   Issued("loadAccount", st.n,
                                          PublicKeyOf(st.keypair)))]

\* fundWithFriendbot: the body was read; wait for the transaction
JsonResolved(st) ==
    [st EXCEPT !.pc = "delay",
               !.outbound = Append(Answer(@, "resolved", NoError, <<>>),
                                   Issued("setTimeout", st.n, FriendbotSettleMs))]

\* fundWithFriendbot: reading the body failed; returns false
JsonRejected(st) ==
    NextNetwork([st EXCEPT !.outbound =
        Answer(@, "rejected", [status |-> 0, message |-> "Unexpected token"], <<>>)])

\* fundWithFriendbot returned true: retry loading the account
DelayElapsed(st) ==
    [st EXCEPT !.pc = "retry",
               !.outbound = Append(Answer(@, "resolved", NoError, <<>>),
                                   Issued("loadAccount", st.n,
                                          PublicKeyOf(st.keypair)))]

\* the retry resolved: push one entry per balance line item
RetryResolved(st, balances) ==
    NextNetwork([st EXCEPT
        !.allBalances = @ \o BalanceEntries(st.networks[st.n], balances),
        !.outbound = Answer(@, "resolved", NoError, balances)])

\* the retry rejected inside the catch block: nothing catches it, the
\* call rejects with it
RetryRejected(st, error) ==
    [st EXCEPT !.pc = "threw", !.outcome = error,
               !.outbound = Answer(@, "rejected", error, <<>>)]

\* new StellarServices(privateKey, requestedNetworks)
Construct(s) ==
    /\ NoCallInProgress
    /\ \E privateKey \in Secrets, requestedNetworks \in RequestedNetworksArgs :
           stl' = [stl EXCEPT ![s] = Constructed(privateKey, requestedNetworks)]
    /\ UNCHANGED <<publicClients, evm, native, wal, auth>>

\* getBalancesForAllNetworks(): up to the loop
GetBalancesForAllNetworksCall(s) ==
    /\ stl[s].pc = "constructed"
    /\ stl' = [stl EXCEPT ![s].pc = "loop", ![s].n = 1]
    /\ UNCHANGED <<publicClients, evm, native, wal, auth>>

LoadAccount(s) ==
    /\ stl[s].pc = "loop" /\ stl[s].n <= Len(stl[s].networks)
    /\ stl' = [stl EXCEPT ![s] = LoadIssued(@)]
    /\ UNCHANGED <<publicClients, evm, native, wal, auth>>

LoadAccountResolved(s) ==
    /\ stl[s].pc = "load"
    /\ \E balances \in AccountBalances :
           stl' = [stl EXCEPT ![s] = LoadResolved(@, balances)]
    /\ UNCHANGED <<publicClients, evm, native, wal, auth>>

LoadAccountRejected(s) ==
    /\ stl[s].pc = "load"
    /\ \E error \in LoadErrors :
           stl' = [stl EXCEPT ![s] = LoadRejected(@, error)]
    /\ UNCHANGED <<publicClients, evm, native, wal, auth>>

FriendbotFetchResolved(s) ==
    /\ stl[s].pc = "fetch"
    /\ \E ok \in BOOLEAN :
           stl' = [stl EXCEPT ![s] = FetchResolved(@, ok)]
    /\ UNCHANGED <<publicClients, evm, native, wal, auth>>

FriendbotFetchRejected(s) ==
    /\ stl[s].pc = "fetch"
    /\ stl' = [stl EXCEPT ![s] = FetchRejected(@)]
    /\ UNCHANGED <<publicClients, evm, native, wal, auth>>

FriendbotJsonResolved(s) ==
    /\ stl[s].pc = "json"
    /\ stl' = [stl EXCEPT ![s] = JsonResolved(@)]
    /\ UNCHANGED <<publicClients, evm, native, wal, auth>>

FriendbotJsonRejected(s) ==
    /\ stl[s].pc = "json"
    /\ stl' = [stl EXCEPT ![s] = JsonRejected(@)]
    /\ UNCHANGED <<publicClients, evm, native, wal, auth>>

FriendbotDelayElapsed(s) ==
    /\ stl[s].pc = "delay"
    /\ stl' = [stl EXCEPT ![s] = DelayElapsed(@)]
    /\ UNCHANGED <<publicClients, evm, native, wal, auth>>

RetryLoadResolved(s) ==
    /\ stl[s].pc = "retry"
    /\ \E balances \in AccountBalances :
           stl' = [stl EXCEPT ![s] = RetryResolved(@, balances)]
    /\ UNCHANGED <<publicClients, evm, native, wal, auth>>

RetryLoadRejected(s) ==
    /\ stl[s].pc = "retry"
    /\ \E error \in LoadErrors :
           stl' = [stl EXCEPT ![s] = RetryRejected(@, error)]
    /\ UNCHANGED <<publicClients, evm, native, wal, auth>>

\* the loop is over: return allBalances
GetBalancesForAllNetworksReturn(s) ==
    /\ stl[s].pc = "loop" /\ stl[s].n > Len(stl[s].networks)
    /\ stl' = [stl EXCEPT ![s].pc = "returned", ![s].outcome = stl[s].allBalances]
    /\ UNCHANGED <<publicClients, evm, native, wal, auth>>

\* the caller has the outcome and drops the session
StellarDone(s) ==
    /\ stl[s].pc \in {"returned", "threw", "ctorThrew"}
    /\ stl' = [stl EXCEPT ![s] = StlIdle]
    /\ UNCHANGED <<publicClients, evm, native, wal, auth>>

\* --------------------------------------------------------- WalletService
\* enum BlockchainNetwork
BlockchainNetwork == {"evm", "stellar", "solana"}

\* A mnemonic is known by where it came from and a number; kind says what
\* the viem derivation does with it, which the service does not control:
\*   "ok"        an account whose address is that of its HD private key
\*   "lowercase" the same, the account's address spelled in lower case
\*   "mismatch"  an account whose address is not that of its HD private key
\*   "nokey"     an account whose HD key carries no private key
\*   "invalid"   no BIP-39 phrase: mnemonicToAccount throws
\*   "empty"     the empty string: falsy, and no BIP-39 phrase
EmptyMnemonic == [src |-> "caller", id |-> 0, kind |-> "empty"]

CallerMnemonics ==
    {EmptyMnemonic,
     [src |-> "caller", id |-> 1, kind |-> "ok"],
     [src |-> "caller", id |-> 2, kind |-> "lowercase"],
     [src |-> "caller", id |-> 3, kind |-> "mismatch"],
     [src |-> "caller", id |-> 4, kind |-> "nokey"],
     [src |-> "caller", id |-> 5, kind |-> "invalid"]}

\* options?.mnemonic: absent ({}) or one of the caller's mnemonics
MnemonicOptions == {{}} \cup {{m} : m \in CallerMnemonics}

\* what fresh entropy may turn out to be under the derivation
RngKinds == {"ok", "mismatch", "nokey"}

\* the k-th draw of fresh entropy in the call of the given epoch: different
\* from every draw of that call and of the call before it
FreshId(epoch, k) == 2 * k + epoch

\* generateMnemonic(english, 128)
generateMnemonic(epoch, k, kind) ==
    [src |-> "rng", id |-> FreshId(epoch, k), kind |-> kind]

\* key material, known by how it was derived and from what
KeyOf(via, m) == [via |-> via, src |-> m.src, id |-> m.id]

\* toHex(privateKey) / keypair.secret() / keypair.publicKey() / an address
Hex(key) == [fmt |-> "0x", key |-> key]

StellarSecret(seed) == [fmt |-> "S", key |-> seed]

StellarPublicKey(seed) == [fmt |-> "G", key |-> seed, case |-> "upper"]

EvmAddress(key, case) == [fmt |-> "0x", key |-> key, case |-> case]

EvmPublicKey(key) == [fmt |-> "0x04", key |-> key, case |-> "lower"]

\* String.prototype.toLowerCase on an address
toLowerCase(address) == [address EXCEPT !.case = "lower"]

\* private keys and secrets a caller may hand to importWalletFromPrivateKey
ImportKeys ==
    {Hex(KeyOf("caller", [src |-> "caller", id |-> 1])),
     StellarSecret(KeyOf("caller", [src |-> "caller", id |-> 2])),
     [fmt |-> "garbage", key |-> KeyOf("caller", [src |-> "caller", id |-> 3])]}

\* an Error a library throws, and the service's own error class
Error(msg, args) == [name |-> "Error", msg |-> msg, args |-> args]

WalletServiceError(msg, args) ==
    [name |-> "WalletServiceError", msg |-> msg, args |-> args]

\* `${prefix}: ${error.message}`
Wrapped(msg, error) == WalletServiceError(msg, <<error.msg>>)

\* mnemonicToAccount(mnemonic): what it throws ({} when it returns)
MnemonicToAccountThrows(m) ==
    IF m.kind \in {"empty", "invalid"} THEN {Error("Invalid mnemonic", <<>>)}
    ELSE {}

\* mnemonicToAccount(mnemonic): the account
mnemonicToAccount(m) ==
    [address |-> CASE m.kind = "mismatch" -> EvmAddress(KeyOf("other", m), "checksum")
                   [] m.kind = "lowercase" -> EvmAddress(KeyOf("hd", m), "lower")
                   [] OTHER -> EvmAddress(KeyOf("hd", m), "checksum"),
     publicKey |-> EvmPublicKey(KeyOf("hd", m)),
     hdPrivateKey |-> IF m.kind = "nokey" THEN {} ELSE {KeyOf("hd", m)}]

\* privateKeyToAccount(privateKey): throws on what is no hex key
PrivateKeyToAccountThrows(privateKey) ==
    IF privateKey.fmt # "0x" THEN {Error("invalid private key", <<>>)} ELSE {}

privateKeyToAccount(privateKey) ==
    [address |-> EvmAddress(privateKey.key, "checksum"),
     publicKey |-> EvmPublicKey(privateKey.key)]

\* Keypair.fromSecret(secret): throws on what is no secret seed
FromSecretThrows(secret) ==
    IF secret.fmt # "S" THEN {Error("invalid encoded string", <<>>)} ELSE {}

\* WalletInfo; the optional fields are sets
WalletInfo(address, privateKey, mnemonic, publicKey, network, secret) ==
    [address |-> address, privateKey |-> privateKey, mnemonic |-> mnemonic,
     publicKey |-> publicKey, network |-> network, secret |-> secret]

\* what a method came to: a value returned or an error thrown, and how many
\* draws of fresh entropy it made
Return(value, drew) == [ok |-> TRUE, value |-> value, drew |-> drew]

Throw(error, drew) == [ok |-> FALSE, value |-> error, drew |-> drew]

\* extractPrivateKey(account): what it throws
ExtractPrivateKeyThrows(account) ==
    IF account.hdPrivateKey = {}
    THEN {WalletServiceError("Failed to extract private key from mnemonic", <<>>)}
    ELSE {}

extractPrivateKey(account) == Hex(CHOOSE key \in account.hdPrivateKey : TRUE)

\* variant: the two addresses are not compared
validateEVMWalletConsistency_Unchecked(mnemonicAccount, privateKey) ==
    PrivateKeyToAccountThrows(privateKey)

\* validateEVMWalletConsistency(mnemonicAccount, privateKey): what it throws
validateEVMWalletConsistency(mnemonicAccount, privateKey) ==
    IF PrivateKeyToAccountThrows(privateKey) # {}
    THEN PrivateKeyToAccountThrows(privateKey)
    ELSE IF toLowerCase(mnemonicAccount.address)
                # toLowerCase(privateKeyToAccount(privateKey).address)
    THEN {WalletServiceError("Address mismatch between mnemonic and private key derivation",
                <<>>)}
    ELSE {}

\* the truthiness of an optional string
Given(mnemonic) == mnemonic # {} /\ \A m \in mnemonic : m.kind # "empty"

\* generateEVMWallet(mnemonic?); fresh is what generateMnemonic() yields if
\* it is called
generateEVMWallet(mnemonic, fresh) ==
    LET drew == IF Given(mnemonic) THEN 0 ELSE 1
        walletMnemonic == IF Given(mnemonic) THEN CHOOSE m \in mnemonic : TRUE
                          ELSE fresh
        account == mnemonicToAccount(walletMnemonic)
        privateKey == extractPrivateKey(account)
        thrown ==
            IF MnemonicToAccountThrows(walletMnemonic) # {}
            THEN MnemonicToAccountThrows(walletMnemonic)
            ELSE IF ExtractPrivateKeyThrows(account) # {}
            THEN ExtractPrivateKeyThrows(account)
            ELSE validateEVMWalletConsistency(account, privateKey)
    IN  IF thrown # {}
        THEN Throw(Wrapped("EVM wallet generation failed: ${message}",
                           CHOOSE e \in thrown : TRUE), drew)
        ELSE Return(WalletInfo(account.address, privateKey, {walletMnemonic},
                               account.publicKey, "evm", {}), drew)

\* deriveStellarKeypairFromMnemonic(mnemonic): the seed is the SHA-256 digest
\* of the text, whatever the text is
deriveStellarKeypairFromMnemonic(m) == KeyOf("sha256", m)

\* Keypair.random(): the seed of the k-th draw
RandomSeed(epoch, k) ==
    KeyOf("random", [src |-> "rng", id |-> FreshId(epoch, k)])

\* generateStellarWallet(mnemonic?); fresh is the seed Keypair.random()
\* yields if it is called
generateStellarWallet(mnemonic, fresh) ==
    LET drew == IF Given(mnemonic) THEN 0 ELSE 1
        keypair == IF Given(mnemonic)
                   THEN deriveStellarKeypairFromMnemonic(CHOOSE m \in mnemonic : TRUE)
                   ELSE fresh
    IN  Return(WalletInfo(StellarPublicKey(keypair), StellarSecret(keypair),
                          IF mnemonic = {} THEN {EmptyMnemonic} ELSE mnemonic,
                          StellarPublicKey(keypair), "stellar",
                          {StellarSecret(keypair)}), drew)

\* handleGenerationError(error): a WalletServiceError passes through, any
\* other error becomes one with the same message
handleGenerationError(error) ==
    IF error.name = "WalletServiceError" THEN error
    ELSE WalletServiceError("${message}", <<error.msg>>)

\* generateWallet(network, options?): the k-th draw of the call, of the kind
\* the environment chose, is at hand
generateWallet(network, mnemonic, epoch, k, kind) ==
    LET inner ==
            CASE network = "evm" ->
                     generateEVMWallet(mnemonic, generateMnemonic(epoch, k, kind))
              [] network = "stellar" ->
                     generateStellarWallet(mnemonic, RandomSeed(epoch, k))
              [] OTHER ->
                     Throw(WalletServiceError("Unsupported network: ${network}", <<network>>), 0)
    IN  IF inner.ok THEN inner
        ELSE Throw(handleGenerationError(inner.value), inner.drew)

\* recoverEVMWalletFromMnemonic(mnemonic)
recoverEVMWalletFromMnemonic(m) ==
    LET account == mnemonicToAccount(m)
        thrown == IF MnemonicToAccountThrows(m) # {}
                  THEN MnemonicToAccountThrows(m)
                  ELSE ExtractPrivateKeyThrows(account)
    IN  IF thrown # {} THEN Throw(CHOOSE e \in thrown : TRUE, 0)
        ELSE Return(WalletInfo(account.address, extractPrivateKey(account), {m},
                               account.publicKey, "evm", {}), 0)

\* variant: recovery derives the seed another way than generation does
recoverStellarWalletFromMnemonic_OtherDerivation(m) ==
    LET keypair == KeyOf("slip10", m)
    IN  Return(WalletInfo(StellarPublicKey(keypair), StellarSecret(keypair), {m},
                          StellarPublicKey(keypair), "stellar",
                          {StellarSecret(keypair)}), 0)

\* recoverStellarWalletFromMnemonic(mnemonic)
recoverStellarWalletFromMnemonic(m) ==
    LET keypair == deriveStellarKeypairFromMnemonic(m)
    IN  Return(WalletInfo(StellarPublicKey(keypair), StellarSecret(keypair), {m},
                          StellarPublicKey(keypair), "stellar",
                          {StellarSecret(keypair)}), 0)

\* variant: recovery without its catch
recoverWalletFromMnemonic_Uncaught(m, network) ==
    CASE network = "evm" -> recoverEVMWalletFromMnemonic(m)
      [] network = "stellar" -> recoverStellarWalletFromMnemonic(m)
      [] OTHER ->
             Throw(WalletServiceError("Unsupported network for recovery: ${network}",
                                      <<network>>), 0)

\* recoverWalletFromMnemonic(mnemonic, network)
recoverWalletFromMnemonic(m, network) ==
    LET inner ==
            CASE network = "evm" -> recoverEVMWalletFromMnemonic(m)
              [] network = "stellar" -> recoverStellarWalletFromMnemonic(m)
              [] OTHER ->
                     Throw(WalletServiceError("Unsupported network for recovery: ${network}",
                                 <<network>>), 0)
    IN  IF inner.ok THEN inner
        ELSE Throw(Wrapped("Wallet recovery failed: ${message}", inner.value), 0)

\* importEVMWalletFromPrivateKey(privateKey)
importEVMWalletFromPrivateKey(privateKey) ==
    IF PrivateKeyToAccountThrows(privateKey) # {}
    THEN Throw(CHOOSE e \in PrivateKeyToAccountThrows(privateKey) : TRUE, 0)
    ELSE Return(WalletInfo(privateKeyToAccount(privateKey).address, privateKey,
                           {}, privateKeyToAccount(privateKey).publicKey,
                           "evm", {}), 0)

\* variant: the raw key of the keypair is returned, and no secret
importStellarWalletFromSecret_RawKey(secret) ==
    IF FromSecretThrows(secret) # {}
    THEN Throw(CHOOSE e \in FromSecretThrows(secret) : TRUE, 0)
    ELSE Return(WalletInfo(StellarPublicKey(secret.key), Hex(secret.key), {},
                           StellarPublicKey(secret.key), "stellar", {}), 0)

\* importStellarWalletFromSecret(secret)
importStellarWalletFromSecret(secret) ==
    IF FromSecretThrows(secret) # {}
    THEN Throw(CHOOSE e \in FromSecretThrows(secret) : TRUE, 0)
    ELSE Return(WalletInfo(StellarPublicKey(secret.key), secret, {},
                           StellarPublicKey(secret.key), "stellar", {secret}), 0)

\* importWalletFromPrivateKey(privateKey, network)
importWalletFromPrivateKey(privateKey, network) ==
    LET inner ==
            CASE network = "evm" -> importEVMWalletFromPrivateKey(privateKey)
              [] network = "stellar" -> importStellarWalletFromSecret(privateKey)
              [] OTHER ->
                     Throw(WalletServiceError("Unsupported network for import: ${network}",
                                 <<network>>), 0)
    IN  IF inner.ok THEN inner
        ELSE Throw(Wrapped("Wallet import failed: ${message}", inner.value), 0)

\* ---- validateWalletAddress
\* an address text is a sequence of characters
Rep(ch, n) == [i \in 1..n |-> ch]

LowerAF == {"a", "b", "c", "d", "e", "f"}

UpperAF == {"A", "B", "C", "D", "E", "F"}

UpperAZ ==
    UpperAF \cup {"G", "H", "I", "J", "K", "L", "M", "N", "O", "P", "Q", "R",
                  "S", "T", "U", "V", "W", "X", "Y", "Z"}

EvmHexLen == 40

StellarBodyLen == 55

\* a pattern is a sequence of items: n characters of a class
Item(class, n) == [class |-> class, n |-> n]

\* /^0x[a-fA-F0-9]{40}$/
EvmAddressPattern ==
    <<Item({"0"}, 1), Item({"x"}, 1),
      Item(LowerAF \cup UpperAF \cup Range(Digits), EvmHexLen)>>

\* /^G[A-Z0-9]{55}$/
StellarAddressPattern ==
    <<Item({"G"}, 1), Item(UpperAZ \cup Range(Digits), StellarBodyLen)>>

\* variant: the pattern without its $
EndAnchor_Absent(text, pos) == TRUE

\* $ without the m flag: the end of the text, nowhere else
EndAnchor(text, pos) == pos = Len(text) + 1

\* the pattern matches the text from position pos to its end
RECURSIVE MatchFrom(_, _, _)
MatchFrom(text, pos, pattern) ==
    IF pattern = <<>> THEN EndAnchor(text, pos)
    ELSE LET item == Head(pattern)
         IN  /\ pos + item.n - 1 <= Len(text)
             /\ \A k \in pos..(pos + item.n - 1) : text[k] \in item.class
             /\ MatchFrom(text, pos + item.n, Tail(pattern))

\* pattern.test(text), the pattern beginning with ^
Test(pattern, text) == MatchFrom(text, 1, pattern)

validateEVMAddress(address) == Test(EvmAddressPattern, address)

validateStellarAddress(address) == Test(StellarAddressPattern, address)

\* validateWalletAddress(address, network)
validateWalletAddress(address, network) ==
    CASE network = "evm" -> Return(validateEVMAddress(address), 0)
      [] network = "stellar" -> Return(validateStellarAddress(address), 0)
      [] OTHER -> Return(FALSE, 0)

\* texts a caller may ask about
EvmBody == Rep("a", 10) \o Rep("F", 10) \o Rep("0", 10) \o Rep("9", 10)

StellarBody == Rep("A", 20) \o Rep("Z", 20) \o Rep("7", 15)

AddressTexts ==
    {<<>>,
     <<"0", "x">> \o EvmBody,
     <<"0", "x">> \o SubSeq(EvmBody, 1, EvmHexLen - 1),
     <<"0", "x">> \o EvmBody \o <<"a">>,
     <<"0", "x">> \o EvmBody \o <<"\n">>,
     <<"0", "X">> \o EvmBody,
     <<"0", "x">> \o SubSeq(EvmBody, 1, EvmHexLen - 1) \o <<"g">>,
     <<"0", "x">> \o SubSeq(EvmBody, 1, EvmHexLen - 1) \o <<"G">>,
     <<"G">> \o StellarBody,
     <<"G">> \o SubSeq(StellarBody, 1, StellarBodyLen - 1),
     <<"G">> \o StellarBody \o <<"A">>,
     <<"S">> \o StellarBody,
     <<"G">> \o SubSeq(StellarBody, 1, StellarBodyLen - 1) \o <<"a">>,
     <<"G">> \o SubSeq(StellarBody, 1, StellarBodyLen - 1) \o <<"-">>}

\* ---- one call of the service at a time
\* the arguments of a call; those a method does not take stay as here
NoArgs ==
    [network |-> "", mnemonic |-> {}, privateKey |-> {}, address |-> <<>>,
     count |-> 0]

\* the call the caller made just before: what was asked and what came back
NoPrev == [op |-> "none", args |-> NoArgs, pc |-> "idle", outcome |-> <<>>]

\* the service between calls; of a call: the method and its arguments, the
\* draws of fresh entropy and the generations attempted so far, the batch
\* loop's index and list, and what the call returned or threw
WalIdle ==
    [pc |-> "idle", op |-> "none", args |-> NoArgs, epoch |-> 0, drawn |-> 0,
     attempts |-> 0, i |-> 0, wallets |-> <<>>, outcome |-> <<>>,
     prev |-> NoPrev]

\* a call that runs to its end without awaiting anything outside
Settled(st, op, args, result) ==
    [st EXCEPT !.pc = IF result.ok THEN "returned" ELSE "threw",
               !.op = op, !.args = args, !.drawn = result.drew,
               !.outcome = result.value]

MaxBatch == 100

\* counts a caller may ask a batch of
Counts == {0 - 1, 0, 1, 2, 3, MaxBatch, MaxBatch + 1}

\* variant: the upper test is count >= 100
BatchStarted_OffByOne(st, count, network) ==
    LET call == [st EXCEPT !.op = "generateMultipleWallets",
                           !.args = [NoArgs EXCEPT !.count = count,
                                                   !.network = network],
                           !.prev = NoPrev]
    IN  IF count <= 0
        THEN [call EXCEPT !.pc = "threw",
                  !.outcome = WalletServiceError("Count must be greater than 0", <<>>)]
        ELSE IF count >= MaxBatch
        THEN [call EXCEPT !.pc = "threw",
                  !.outcome = WalletServiceError("Cannot generate more than 100 wallets at once",
                                    <<>>)]
        ELSE [call EXCEPT !.pc = "loop", !.i = 0, !.wallets = <<>>]

\* generateMultipleWallets(count, network) up to the loop, or to the throw
\* before it
BatchStarted(st, count, network) ==
    LET call == [st EXCEPT !.op = "generateMultipleWallets",
                           !.args = [NoArgs EXCEPT !.count = count,
                                                   !.network = network],
                           !.prev = NoPrev]
    IN  IF count <= 0
        THEN [call EXCEPT !.pc = "threw",
                  !.outcome = WalletServiceError("Count must be greater than 0", <<>>)]
        ELSE IF count > MaxBatch
        THEN [call EXCEPT !.pc = "threw",
                  !.outcome = WalletServiceError("Cannot generate more than 100 wallets at once",
                                    <<>>)]
        ELSE [call EXCEPT !.pc = "loop", !.i = 0, !.wallets = <<>>]

\* variant: the catch block keeps what was generated and goes on
BatchFailed_SkipsFailure(st) == [st EXCEPT !.i = @ + 1]

\* catch (error) { throw new WalletServiceError(`Failed to generate wallet ${i + 1}`) }
BatchFailed(st) ==
    [st EXCEPT !.pc = "threw",
               !.outcome = WalletServiceError("Failed to generate wallet ${i + 1}",
                                 <<st.i + 1>>)]

\* one turn of the loop: await generateWallet(network), then push or throw
BatchIterated(st, kind) ==
    LET result == generateWallet(st.args.network, {}, st.epoch, st.drawn + 1, kind)
        tried == [st EXCEPT !.drawn = @ + result.drew, !.attempts = @ + 1]
    IN  IF result.ok
        THEN [tried EXCEPT !.wallets = Append(@, result.value), !.i = @ + 1]
        ELSE BatchFailed(tried)

\* return wallets
BatchReturned(st) == [st EXCEPT !.pc = "returned", !.outcome = st.wallets]

\* the caller has the outcome and keeps it in mind for the next call
Remembered(st) ==
    [WalIdle EXCEPT !.epoch = 1 - st.epoch,
                    !.prev = IF st.op = "generateMultipleWallets" THEN NoPrev
                             ELSE [op |-> st.op, args |-> st.args, pc |-> st.pc,
                                   outcome |-> st.outcome]]

\* the private key or secret of the wallet the caller holds from the call
\* before, if that call returned one
HeldKeys ==
    IF wal.prev.pc = "returned"
           /\ wal.prev.op \in {"generateWallet", "recoverWalletFromMnemonic"}
    THEN {wal.prev.outcome.privateKey} \cup wal.prev.outcome.secret
    ELSE {}

GenerateWalletCall ==
    /\ wal.pc = "idle"
    /\ \E network \in BlockchainNetwork, mnemonic \in MnemonicOptions,
          kind \in RngKinds :
           wal' = Settled(wal, "generateWallet",
                          [NoArgs EXCEPT !.network = network,
                                         !.mnemonic = mnemonic],
                          generateWallet(network, mnemonic, wal.epoch, 1, kind))
    /\ UNCHANGED <<publicClients, evm, stl, native, auth>>

RecoverWalletFromMnemonicCall ==
    /\ wal.pc = "idle"
    /\ \E m \in CallerMnemonics, network \in BlockchainNetwork :
           wal' = Settled(wal, "recoverWalletFromMnemonic",
                          [NoArgs EXCEPT !.network = network, !.mnemonic = {m}],
                          recoverWalletFromMnemonic(m, network))
    /\ UNCHANGED <<publicClients, evm, stl, native, auth>>

ImportWalletFromPrivateKeyCall ==
    /\ wal.pc = "idle"
    /\ \E privateKey \in ImportKeys \cup HeldKeys,
          network \in BlockchainNetwork :
           wal' = Settled(wal, "importWalletFromPrivateKey",
                          [NoArgs EXCEPT !.network = network,
                                         !.privateKey = {privateKey}],
                          importWalletFromPrivateKey(privateKey, network))
    /\ UNCHANGED <<publicClients, evm, stl, native, auth>>

ValidateWalletAddressCall ==
    /\ wal.pc = "idle"
    /\ \E address \in AddressTexts, network \in BlockchainNetwork :
           wal' = Settled(wal, "validateWalletAddress",
                          [NoArgs EXCEPT !.network = network,
                                         !.address = address],
                          validateWalletAddress(address, network))
    /\ UNCHANGED <<publicClients, evm, stl, native, auth>>

GenerateMultipleWalletsCall ==
    /\ wal.pc = "idle"
    /\ \E count \in Counts, network \in BlockchainNetwork :
           wal' = BatchStarted(wal, count, network)
    /\ UNCHANGED <<publicClients, evm, stl, native, auth>>

GenerateMultipleWalletsIterate ==
    /\ wal.pc = "loop"
    /\ wal.i < wal.args.count
    /\ \E kind \in RngKinds : wal' = BatchIterated(wal, kind)
    /\ UNCHANGED <<publicClients, evm, stl, native, auth>>

GenerateMultipleWalletsReturn ==
    /\ wal.pc = "loop"
    /\ wal.i >= wal.args.count
    /\ wal' = BatchReturned(wal)
    /\ UNCHANGED <<publicClients, evm, stl, native, auth>>

WalletDone ==
    /\ wal.pc \in {"returned", "threw"}
    /\ wal' = Remembered(wal)
    /\ UNCHANGED <<publicClients, evm, stl, native, auth>>

\* --------------------------------------------------- EmailAuthController
\* POST auth/email/login, /verify and /resend. Each await on the database
\* or on the mail service is a step; requests interleave at these steps. A
\* request comes in at the moment its lookup reads the collection: what
\* happens between its arrival and that read is the same as before it.
NumRequests == 2
MaxOtps == 2

Requests == 1..NumRequests

\* request.user.app.appId: the tenant the @Security('app') middleware found
AppId == "app-1"

\* body.email as sent
Emails == {"Ada@crefy.io", "not-an-email"}

\* validateEmail(email), of utils/auth
validateEmail(email) == email \in {"ada@crefy.io", "Ada@crefy.io"}

\* email.toLowerCase()
NormalizedEmail(email) == IF email = "Ada@crefy.io" THEN "ada@crefy.io" ELSE email

\* body.network: optional, BlockchainNetwork.EVM when left out
NetworkParams == {{}, {"evm"}}

NetworkOrDefault(param) == IF param = {} THEN "evm" ELSE CHOOSE n \in param : TRUE

\* body.otp: left out, or a six-digit text (here: the number of the OTP)
OtpParams == {{}} \cup {{n} : n \in 1..MaxOtps}

\* the Authorization header: none, a text that is no JWT of this server, or
\* a JWT
NoAddress == [serial |-> 0]

NoToken == [kind |-> "none", address |-> NoAddress, network |-> ""]

GarbageToken == [kind |-> "garbage", address |-> NoAddress, network |-> ""]

\* generateJWT({ address, network })
generateJWT(address, network) ==
    [kind |-> "jwt", address |-> address, network |-> network]

\* a response: the object returned, or the ApiError thrown
Ok(message, token) ==
    [success |-> TRUE, status |-> 200, code |-> "OK", message |-> message,
     token |-> token]

Failed(status, code) ==
    [success |-> FALSE, status |-> status, code |-> code, message |-> "",
     token |-> {}]

ReqIdle ==
    [pc |-> "idle", op |-> "none", email |-> "", network |-> "", otp |-> {},
     token |-> NoToken, wallet |-> {}, newOtp |-> 0, response |-> Failed(0, "")]

\* the state of the controller's world: the wallets collection and whether
\* its index on the email was built, the requests in progress, the mails
\* handed to the mail service, the JWTs issued, the number of OTPs generated
\* and the number of them whose expiry has passed
AuthInit ==
    [db |-> <<>>, emailIndex |-> TRUE, req |-> [r \in Requests |-> ReqIdle],
     mail |-> {}, issued |-> {}, otps |-> 0, expired |-> 0]

\* WalletSchema.index(...): (appId, address, network) is declared unique;
\* (appId, email, network) is declared unique with both sparse and
\* partialFilterExpression, options the database does not accept together,
\* so whether that index exists is for the deployment to tell
EmailIndexBuilt == BOOLEAN

\* an insert is refused by a unique index that exists
UniqueIndexViolated(db, doc, emailIndex) ==
    \E k \in 1..Len(db) :
        /\ db[k].appId = doc.appId /\ db[k].network = doc.network
        /\ \/ db[k].address = doc.address
           \/ emailIndex /\ db[k].email = doc.email

\* Wallet.findOne({ email, socialType: 'email', appId, network }): the first
\* match, {} for null
findWalletByEmailAndNetwork(db, email, appId, network) ==
    LET hits == {k \in 1..Len(db) :
                    /\ db[k].email = email /\ db[k].appId = appId
                    /\ db[k].network = network}
    IN  IF hits = {} THEN {}
        ELSE {db[CHOOSE k \in hits : \A j \in hits : k <= j]}

\* isValidTokenForWallet(token, wallet): verifyJWT throws for what is no JWT
\* and the catch answers false
isValidTokenForWallet(token, wallet) ==
    /\ token.kind = "jwt"
    /\ \E w \in wallet :
           /\ w.address = token.address /\ w.network = token.network
           /\ w.isActive

\* wallet.otpExpiry < new Date(): the expiry of the n-th OTP has passed
Expired(otpExpiry, expired) == \E n \in otpExpiry : n <= expired

\* validateOTP(wallet, otp): the error thrown, {} when none
validateOTP(wallet, otp, expired) ==
    IF wallet.otp # otp THEN {Failed(400, "INVALID_OTP")}
    ELSE IF wallet.otpExpiry # {} /\ Expired(wallet.otpExpiry, expired)
    THEN {Failed(400, "OTP_EXPIRED")}
    ELSE {}

\* variant: save() writes the whole document as the request holds it
updateWalletOTP_WholeDocument(db, wallet) ==
    [db EXCEPT ![wallet.id] = wallet]

\* updateWalletOTP: wallet.otp and wallet.otpExpiry are set and save()
\* writes the paths that were modified
updateWalletOTP(db, wallet) ==
    [db EXCEPT ![wallet.id].otp = wallet.otp,
               ![wallet.id].otpExpiry = wallet.otpExpiry]

\* activateWallet: isActive = true, otp and otpExpiry unset, save()
activateWallet(db, wallet) ==
    [db EXCEPT ![wallet.id].isActive = TRUE,
               ![wallet.id].otp = {},
               ![wallet.id].otpExpiry = {}]

\* the request ends with the response; of its locals the OTP it drew is
\* kept for the record
Respond(a, r, response) ==
    [a EXCEPT !.req[r] = [ReqIdle EXCEPT !.pc = "responded", !.op = a.req[r].op,
                                         !.newOtp = a.req[r].newOtp,
                                         !.response = response]]

\* a mail with an OTP, as handed to the mail service
Mail(fr) == [to |-> fr.email, network |-> fr.network, otp |-> fr.newOtp]

\* sendOTPEmail up to its await: the mail is handed to the mail service
SendOTPEmail(a, r) ==
    [a EXCEPT !.req[r].pc = "mail", !.mail = @ \cup {Mail(a.req[r])}]

\* emailLogin up to the await of the lookup
EmailLoginEntered(a, r, email, network, token) ==
    LET fr == [ReqIdle EXCEPT !.op = "emailLogin",
                              !.email = NormalizedEmail(email),
                              !.network = NetworkOrDefault(network),
                              !.token = token]
    IN  IF ~validateEmail(email)
        THEN Respond([a EXCEPT !.req[r] = fr], r, Failed(400, "VALIDATION_ERROR"))
        ELSE [a EXCEPT !.req[r] = [fr EXCEPT !.pc = "find"]]

\* handleNewWallet up to Wallet.create: the document as built; the wallet
\* generated for it has fresh keys, told apart by the number of the OTP
\* the request drew just before
NewWallet(a, r, otp) ==
    [id |-> 0, appId |-> AppId, email |-> a.req[r].email,
     network |-> a.req[r].network,
     address |-> [serial |-> otp],
     isActive |-> FALSE, otp |-> {otp}, otpExpiry |-> {otp}]

\* emailLogin after the lookup: already logged in, or a new OTP and the
\* save of the wallet found, or the creation of a new one; the token was
\* read for the last time
LoginFound(a, r, generated) ==
    LET fr == a.req[r]
        existingWallet ==
            findWalletByEmailAndNetwork(a.db, fr.email, AppId, fr.network)
        otp == a.otps + 1
        drawn == [a EXCEPT !.otps = otp, !.req[r].newOtp = otp,
                           !.req[r].token = NoToken]
    IN  IF fr.token.kind # "none" /\ isValidTokenForWallet(fr.token, existingWallet)
        THEN Respond(a, r, Ok("User already logged in", {}))
        ELSE IF existingWallet # {}
        THEN [drawn EXCEPT
                 !.req[r].pc = "save",
                 !.req[r].wallet = {[w EXCEPT !.otp = {otp}, !.otpExpiry = {otp}] :
                                       w \in existingWallet}]
        ELSE IF ~generated
        THEN Respond(drawn, r, Failed(500, "WalletServiceError"))
        ELSE [drawn EXCEPT !.req[r].pc = "create",
                           !.req[r].wallet = {NewWallet(a, r, otp)}]

\* updateWalletOTP's save is done: the mail goes out
OtpSaved(a, r) ==
    LET wallet == CHOOSE w \in a.req[r].wallet : TRUE
    IN  SendOTPEmail([a EXCEPT !.db = updateWalletOTP(@, wallet)], r)

\* Wallet.create is done: a duplicate key ends the request, otherwise the
\* document is in the collection and the mail goes out
WalletCreated(a, r) ==
    LET wallet == CHOOSE w \in a.req[r].wallet : TRUE
        stored == [wallet EXCEPT !.id = Len(a.db) + 1]
    IN  IF UniqueIndexViolated(a.db, wallet, a.emailIndex)
        THEN Respond(a, r, Failed(500, "E11000 duplicate key"))
        ELSE SendOTPEmail([a EXCEPT !.db = Append(@, stored),
                                    !.req[r].wallet = {stored}], r)

\* variant: a mail that could not be sent takes the new OTP back
EmailAnswered_RollBack(a, r, emailSent) ==
    LET wallet == CHOOSE w \in a.req[r].wallet : TRUE
    IN  IF emailSent
        THEN Respond(a, r, Ok("OTP sent to email for verification", {}))
        ELSE Respond([a EXCEPT
                               !.db[wallet.id].otp = {},
                               !.db[wallet.id].otpExpiry = {}], r,
                     Failed(500, "EMAIL_SEND_FAILED"))

\* emailService.sendOTP answered: if (!emailSent) throw EMAIL_SEND_FAILED
EmailAnswered(a, r, emailSent) ==
    IF emailSent
    THEN Respond(a, r, Ok("OTP sent to email for verification", {}))
    ELSE Respond(a, r, Failed(500, "EMAIL_SEND_FAILED"))

\* verifyOTP up to the await of the lookup
VerifyOTPEntered(a, r, email, otp, network, token) ==
    LET fr == [ReqIdle EXCEPT !.op = "verifyOTP",
                              !.email = NormalizedEmail(email),
                              !.network = NetworkOrDefault(network),
                              !.otp = otp, !.token = token]
    IN  IF ~validateEmail(email)
        THEN Respond([a EXCEPT !.req[r] = fr], r, Failed(400, "VALIDATION_ERROR"))
        ELSE [a EXCEPT !.req[r] = [fr EXCEPT !.pc = "find"]]

\* variant: verifyOTP without validateOTP
VerifyFound_Unchecked(a, r) ==
    LET fr == a.req[r]
        wallet == findWalletByEmailAndNetwork(a.db, fr.email, AppId, fr.network)
    IN  IF wallet = {} THEN Respond(a, r, Failed(404, "WALLET_NOT_FOUND"))
        ELSE [a EXCEPT !.req[r].pc = "activate", !.req[r].wallet = wallet]

\* verifyOTP after the lookup: not found, already logged in, a wrong or
\* expired OTP, or the save that activates the wallet; the token was read
\* for the last time
VerifyFound(a, r) ==
    LET fr == a.req[r]
        wallet == findWalletByEmailAndNetwork(a.db, fr.email, AppId, fr.network)
        w == CHOOSE w \in wallet : TRUE
    IN  IF wallet = {} THEN Respond(a, r, Failed(404, "WALLET_NOT_FOUND"))
        ELSE IF fr.token.kind # "none" /\ w.isActive
                /\ isValidTokenForWallet(fr.token, wallet)
        THEN Respond(a, r, Ok("User already logged in", {fr.token}))
        ELSE IF validateOTP(w, fr.otp, a.expired) # {}
        THEN Respond(a, r, CHOOSE e \in validateOTP(w, fr.otp, a.expired) : TRUE)
        ELSE [a EXCEPT !.req[r].pc = "activate", !.req[r].wallet = wallet,
                       !.req[r].token = NoToken]

\* activateWallet's save is done: the JWT is made and returned
WalletActivated(a, r) ==
    LET wallet == CHOOSE w \in a.req[r].wallet : TRUE
        newToken == generateJWT(wallet.address, wallet.network)
    IN  Respond([a EXCEPT !.db = activateWallet(@, wallet),
                          !.issued = @ \cup {newToken}], r,
                Ok("Wallet verified successfully", {newToken}))

\* resendOTP up to the await of the lookup
ResendOTPEntered(a, r, email, network) ==
    [a EXCEPT !.req[r] = [ReqIdle EXCEPT !.op = "resendOTP", !.pc = "find",
                                         !.email = NormalizedEmail(email),
                                         !.network = NetworkOrDefault(network)]]

\* resendOTP after the lookup: not found, or a new OTP and the save
ResendFound(a, r) ==
    LET fr == a.req[r]
        wallet == findWalletByEmailAndNetwork(a.db, fr.email, AppId, fr.network)
        otp == a.otps + 1
    IN  IF wallet = {} THEN Respond(a, r, Failed(404, "WALLET_NOT_FOUND"))
        ELSE [a EXCEPT
                 !.otps = otp, !.req[r].newOtp = otp, !.req[r].pc = "save",
                 !.req[r].wallet = {[w EXCEPT !.otp = {otp}, !.otpExpiry = {otp}] :
                                       w \in wallet}]

\* the Authorization headers a caller can send
Tokens(a) == {NoToken, GarbageToken} \cup a.issued

\* what is read of a request that fails on its email, or finds a wallet:
\* the other fields of the one, and how the generation of a wallet would
\* go for the other, make no difference
Read(email, params) == IF validateEmail(email) THEN params ELSE {CHOOSE p \in params : TRUE}

Generations(a, email) ==
    IF findWalletByEmailAndNetwork(a.db, NormalizedEmail(email), AppId, "evm") = {}
    THEN BOOLEAN ELSE {TRUE}

\* a response goes out before anything else happens: the caller has it at
\* once, and no step of another request depends on it
NoneResponded == \A q \in Requests : auth.req[q].pc # "responded"

\* the lookup of a request that got as far as its lookup is answered
Looked(entered, r, found) ==
    IF entered.req[r].pc = "find" THEN found ELSE entered

\* POST auth/email/login: up to the save, the create or the response
EmailLoginRequest(r) ==
    /\ NoneResponded
    /\ auth.req[r].pc = "idle"
    /\ auth.otps < MaxOtps
    /\ \E email \in Emails :
       \E network \in Read(email, NetworkParams), token \in Read(email, Tokens(auth)),
          generated \in Read(email, Generations(auth, email)) :
           LET entered == EmailLoginEntered(auth, r, email, network, token)
           IN  auth' = Looked(entered, r, LoginFound(entered, r, generated))
    /\ UNCHANGED <<publicClients, evm, stl, native, wal>>

WalletSaved(r) ==
    /\ NoneResponded
    /\ auth.req[r].pc = "save"
    /\ auth' = OtpSaved(auth, r)
    /\ UNCHANGED <<publicClients, evm, stl, native, wal>>

WalletCreate(r) ==
    /\ NoneResponded
    /\ auth.req[r].pc = "create"
    /\ auth' = WalletCreated(auth, r)
    /\ UNCHANGED <<publicClients, evm, stl, native, wal>>

SendOTPAnswered(r) ==
    /\ NoneResponded
    /\ auth.req[r].pc = "mail"
    /\ \E emailSent \in BOOLEAN : auth' = EmailAnswered(auth, r, emailSent)
    /\ UNCHANGED <<publicClients, evm, stl, native, wal>>

\* POST auth/email/verify: up to the save or the response
VerifyOTPRequest(r) ==
    /\ NoneResponded
    /\ auth.req[r].pc = "idle"
    /\ \E email \in Emails :
       \E otp \in Read(email, OtpParams), network \in Read(email, NetworkParams),
          token \in Read(email, Tokens(auth)) :
           LET entered == VerifyOTPEntered(auth, r, email, otp, network, token)
           IN  auth' = Looked(entered, r, VerifyFound(entered, r))
    /\ UNCHANGED <<publicClients, evm, stl, native, wal>>

ActivateSaved(r) ==
    /\ NoneResponded
    /\ auth.req[r].pc = "activate"
    /\ auth' = WalletActivated(auth, r)
    /\ UNCHANGED <<publicClients, evm, stl, native, wal>>

\* POST auth/email/resend: up to the save or the response
ResendOTPRequest(r) ==
    /\ NoneResponded
    /\ auth.req[r].pc = "idle"
    /\ auth.otps < MaxOtps
    /\ \E email \in Emails, network \in NetworkParams :
           LET entered == ResendOTPEntered(auth, r, email, network)
           IN  auth' = Looked(entered, r, ResendFound(entered, r))
    /\ UNCHANGED <<publicClients, evm, stl, native, wal>>

\* the response is out; the next request may come
RequestDone(r) ==
    /\ auth.req[r].pc = "responded"
    /\ auth' = [auth EXCEPT !.req[r] = ReqIdle]
    /\ UNCHANGED <<publicClients, evm, stl, native, wal>>

\* time passes: the expiry of the oldest OTP still valid is reached
TimePasses ==
    /\ NoneResponded
    /\ auth.expired < auth.otps
    /\ auth' = [auth EXCEPT !.expired = @ + 1]
    /\ UNCHANGED <<publicClients, evm, stl, native, wal>>

\* ----------------------------------------------------------- behaviours
Init ==
    /\ publicClients = createPublicClients
    /\ evm = [c \in EvmCalls |-> EvmIdle]
    /\ stl = [s \in Sessions |-> StlIdle]
    /\ native = [c \in EvmCalls |-> NativeIdle]
    /\ wal = WalIdle
    /\ auth = AuthInit

EvmNext(c) ==
    \/ GetBalanceCall(c)
    \/ GetBalanceResolved(c)
    \/ GetBalanceRejected(c)
    \/ GetBalancesCall(c)
    \/ GetBalancesIterate(c)
    \/ GetBalancesResolved(c)
    \/ GetBalancesRejected(c)
    \/ GetBalancesReturn(c)
    \/ GetSupportedChainsCall(c)
    \/ EvmDone(c)

NativeNext(c) ==
    \/ NativeRequest(c)
    \/ NativeRespond(c)
    \/ NativeDone(c)

StellarNext(s) ==
    \/ Construct(s)
    \/ GetBalancesForAllNetworksCall(s)
    \/ LoadAccount(s)
    \/ LoadAccountResolved(s)
    \/ LoadAccountRejected(s)
    \/ FriendbotFetchResolved(s)
    \/ FriendbotFetchRejected(s)
    \/ FriendbotJsonResolved(s)
    \/ FriendbotJsonRejected(s)
    \/ FriendbotDelayElapsed(s)
    \/ RetryLoadResolved(s)
    \/ RetryLoadRejected(s)
    \/ GetBalancesForAllNetworksReturn(s)
    \/ StellarDone(s)

Next ==
    \/ \E c \in EvmCalls : EvmNext(c)
    \/ \E c \in EvmCalls : NativeNext(c)
    \/ \E s \in Sessions : StellarNext(s)

Spec == Init /\ [][Next]_vars

\* the wallet service on its own: calls of its methods, one after another
\* Requests served at the same time: getBalances calls on the one
\* BalanceService and getBalancesForAllNetworks calls on sessions of their
\* own, interleaved at every await. Each caller asks for its own address and
\* with its own secret; the environment answers from a few values.
AddressFor(c) ==
    IF c % 2 = 1 THEN "0xa5E0" ELSE "0x71C7"

SecretFor(s) ==
    IF s % 2 = 1 THEN "SBBU3V25" ELSE "SDX7QK2M"

ConcurrentChainIds ==
    {[given |-> FALSE, list |-> <<>>],
     [given |-> TRUE, list |-> <<999999, 11155111>>]}

ConcurrentNetworks ==
    {[given |-> TRUE, list |-> <<"testnet">>],
     [given |-> TRUE, list |-> <<"mainnet", "testnet">>]}

\* the answers the environment gives while requests run side by side
ConcurrentAnswers ==
    /\ \A c \in EvmCalls : \A k \in 1..Len(evm[c].queries) :
           /\ evm[c].queries[k].value \in {<<>>, <<0>>, <<2>> \o Zeros(18)}
           /\ evm[c].queries[k].cause \in {"", "TimeoutError"}
    /\ \A s \in Sessions : \A k \in 1..Len(stl[s].outbound) :
           /\ stl[s].outbound[k].value \in {<<>>, <<Native>>}
           /\ stl[s].outbound[k].call = "loadAccount" =>
                  stl[s].outbound[k].error.status \in {0, 404}
           /\ stl[s].outbound[k].error.message \notin {"Network Error", "Not Found"}

\* getBalances(address, chainIds) while other calls are in progress
ConcurrentGetBalancesCall(c) ==
    /\ evm[c].pc = "idle"
    /\ \A s \in Sessions : stl[s].pc = "idle"
    /\ \E chainIds \in ConcurrentChainIds :
           evm' = [evm EXCEPT ![c] = GetBalancesStarted(AddressFor(c), chainIds)]
    /\ UNCHANGED <<publicClients, stl, native, wal, auth>>

\* new StellarServices(secretKey, requestedNetworks) while other sessions
\* are in use
ConcurrentConstruct(s) ==
    /\ stl[s].pc = "idle"
    /\ \A c \in EvmCalls : evm[c].pc = "idle"
    /\ \E requestedNetworks \in ConcurrentNetworks :
           stl' = [stl EXCEPT ![s] = Constructed(SecretFor(s), requestedNetworks)]
    /\ UNCHANGED <<publicClients, evm, native, wal, auth>>

ConcurrentNext ==
    \/ \E c \in EvmCalls : ConcurrentGetBalancesCall(c)
    \/ \E c \in EvmCalls : GetBalancesIterate(c)
    \/ \E c \in EvmCalls : GetBalancesResolved(c) /\ ConcurrentAnswers'
    \/ \E c \in EvmCalls : GetBalancesRejected(c) /\ ConcurrentAnswers'
    \/ \E c \in EvmCalls : GetBalancesReturn(c)
    \/ \E c \in EvmCalls : EvmDone(c)
    \/ \E s \in Sessions : ConcurrentConstruct(s)
    \/ \E s \in Sessions : GetBalancesForAllNetworksCall(s)
    \/ \E s \in Sessions : LoadAccount(s)
    \/ \E s \in Sessions : LoadAccountResolved(s) /\ ConcurrentAnswers'
    \/ \E s \in Sessions : LoadAccountRejected(s) /\ ConcurrentAnswers'
    \/ \E s \in Sessions : FriendbotFetchResolved(s)
    \/ \E s \in Sessions : FriendbotFetchRejected(s)
    \/ \E s \in Sessions : FriendbotJsonResolved(s)
    \/ \E s \in Sessions : FriendbotJsonRejected(s)
    \/ \E s \in Sessions : FriendbotDelayElapsed(s)
    \/ \E s \in Sessions : RetryLoadResolved(s) /\ ConcurrentAnswers'
    \/ \E s \in Sessions : RetryLoadRejected(s) /\ ConcurrentAnswers'
    \/ \E s \in Sessions : GetBalancesForAllNetworksReturn(s)
    \/ \E s \in Sessions : StellarDone(s)

SpecConcurrent == Init /\ [][ConcurrentNext]_vars

\* the requests of the email flow, interleaved at their awaits
AuthNext ==
    \/ \E r \in Requests : EmailLoginRequest(r)
    \/ \E r \in Requests : WalletSaved(r)
    \/ \E r \in Requests : WalletCreate(r)
    \/ \E r \in Requests : SendOTPAnswered(r)
    \/ \E r \in Requests : VerifyOTPRequest(r)
    \/ \E r \in Requests : ActivateSaved(r)
    \/ \E r \in Requests : ResendOTPRequest(r)
    \/ \E r \in Requests : RequestDone(r)
    \/ TimePasses

\* the collection with or without its index on the email
InitAuth ==
    /\ publicClients = createPublicClients
    /\ evm = [c \in EvmCalls |-> EvmIdle]
    /\ stl = [s \in Sessions |-> StlIdle]
    /\ native = [c \in EvmCalls |-> NativeIdle]
    /\ wal = WalIdle
    /\ \E built \in EmailIndexBuilt : auth = [AuthInit EXCEPT !.emailIndex = built]

SpecAuth == InitAuth /\ [][AuthNext]_vars

WalletNext ==
    \/ GenerateWalletCall
    \/ RecoverWalletFromMnemonicCall
    \/ ImportWalletFromPrivateKeyCall
    \/ ValidateWalletAddressCall
    \/ GenerateMultipleWalletsCall
    \/ GenerateMultipleWalletsIterate
    \/ GenerateMultipleWalletsReturn
    \/ WalletDone

SpecWallet == Init /\ [][WalletNext]_vars

\* --------------------------------------------------------------- claims
\* What the claims speak of, read off the calls' records.
RegistryIds == {CHAINS[k].chainId : k \in 1..Len(CHAINS)}

RegistryOrder == [k \in 1..Len(CHAINS) |-> CHAINS[k].chainId]

\* the list a getBalances call was asked for
Requested(st) ==
    IF st.chainIds.given THEN st.chainIds.list ELSE RegistryOrder

ChainIdsOf(entries) == [k \in 1..Len(entries) |-> entries[k].chainId]

\* the queries of a call that resolved, in the order sent
ResolvedQueries(st) == SelectSeq(st.queries, LAMBDA q : q.state = "resolved")

RECURSIVE IsSubsequence(_, _)
IsSubsequence(s, t) ==
    IF s = <<>> THEN TRUE
    ELSE IF t = <<>> THEN FALSE
    ELSE IF Head(s) = Head(t) THEN IsSubsequence(Tail(s), Tail(t))
    ELSE IsSubsequence(s, Tail(t))

\* C1: getBalances never fails, whatever each chain's outcome; what it
\* returns holds exactly one entry for each requested occurrence of a chain
\* whose getBalance succeeded (with the balance that query got) and none for
\* an occurrence that was unregistered or whose query failed.
C1_GetBalancesNeverFails ==
    \A c \in EvmCalls :
        LET st == evm[c]
            ok == ResolvedQueries(st)
        IN  st.op = "getBalances" =>
              /\ st.pc # "threw"
              /\ st.pc = "returned" =>
                    /\ Len(st.outcome) = Len(ok)
                    /\ \A k \in 1..Len(ok) :
                          /\ st.outcome[k].chainId = ok[k].chainId
                          /\ st.outcome[k].balance = ok[k].value
                          /\ Requested(st)[ok[k].pos] = ok[k].chainId
                    /\ \A p \in 1..Len(Requested(st)) :
                          Cardinality({k \in 1..Len(st.queries) :
                                          st.queries[k].pos = p}) =
                              IF Requested(st)[p] \in RegistryIds THEN 1 ELSE 0

\* C1 witness: getBalances(addr, [8453, 999999]) returned one entry, for 8453.
C1_Witness ==
    \E c \in EvmCalls :
        /\ evm[c].op = "getBalances" /\ evm[c].pc = "returned"
        /\ evm[c].chainIds.given /\ evm[c].chainIds.list = <<8453, 999999>>
        /\ ChainIdsOf(evm[c].outcome) = <<8453>>

\* ids runs through nets in order, staying any number of entries on each
RECURSIVE GroupedBy(_, _)
GroupedBy(ids, nets) ==
    IF ids = <<>> THEN TRUE
    ELSE IF nets = <<>> THEN FALSE
    ELSE IF Head(ids) = Head(nets) THEN GroupedBy(Tail(ids), nets)
    ELSE GroupedBy(ids, Tail(nets))

\* C7: the chain ids of the entries getBalances
\* has collected are an order-preserving subsequence of the requested list
\* (of the registry order when no list was given); the entries
\* getBalancesForAllNetworks has collected are grouped by network, in the
\* order the networks were given at construction.
C7_ResultOrderFollowsRequest ==
    /\ \A c \in EvmCalls :
          evm[c].op = "getBalances" =>
              /\ IsSubsequence(ChainIdsOf(evm[c].results), Requested(evm[c]))
              /\ evm[c].pc = "returned" =>
                    IsSubsequence(ChainIdsOf(evm[c].outcome), Requested(evm[c]))
    /\ \A s \in Sessions :
          /\ GroupedBy(ChainIdsOf(stl[s].allBalances),
                       ChainIdsOf(stl[s].networks))
          /\ stl[s].pc = "returned" =>
                GroupedBy(ChainIdsOf(stl[s].outcome), ChainIdsOf(stl[s].networks))

\* C7 witness: asked for Sepolia before Base, both answered: Sepolia's entry
\* comes first.
C7_Witness ==
    \E c \in EvmCalls :
        /\ evm[c].op = "getBalances" /\ evm[c].pc = "returned"
        /\ evm[c].chainIds.given /\ evm[c].chainIds.list = <<11155111, 8453>>
        /\ ChainIdsOf(evm[c].outcome) = <<11155111, 8453>>

\* C9: getBalance for a chain id the registry does not hold throws the
\* unsupported-chain error naming that id, sends no query and returns no
\* entry; nor does the getBalances loop ever query such an id.
C9_UnsupportedChainNoQuery ==
    \A c \in EvmCalls :
        /\ \A k \in 1..Len(evm[c].queries) :
              evm[c].queries[k].chainId \in RegistryIds
        /\ (evm[c].op = "getBalance" /\ evm[c].chainId \notin RegistryIds) =>
              /\ evm[c].pc = "threw"
              /\ evm[c].outcome.msg = "Chain with ID ${chainId} is not supported"
              /\ evm[c].outcome.args = <<evm[c].chainId>>
              /\ evm[c].queries = <<>>

\* C9 witness: getBalance(addr, 999999) has thrown.
C9_Witness ==
    \E c \in EvmCalls :
        /\ evm[c].op = "getBalance" /\ evm[c].chainId = 999999
        /\ evm[c].pc = "threw" /\ evm[c].queries = <<>>

\* the wrapped error of a failed query, naming the address and the chain id
FetchFailedNaming(error, address, chainId, cause) ==
    /\ error.msg =
          "Failed to get balance for address ${address} on chain ${chainId}: ${error}"
    /\ error.args = <<address, chainId, cause>>

\* C10: one invocation of getBalance sends at most one query (exactly one
\* once it is past the registry check); when the query fails, the error
\* thrown names the address and the chain id, and neither getBalance nor the
\* getBalances loop queries again for that invocation: the loop has one
\* query per registered list position it has reached, and none is repeated.
C10_OneQueryNoRetry ==
    \A c \in EvmCalls :
        LET st == evm[c] IN
        /\ st.op = "getBalance" =>
              /\ Len(st.queries) <= 1
              /\ st.chainId \in RegistryIds => Len(st.queries) = 1
              /\ (st.queries # <<>> /\ st.queries[1].state = "rejected") =>
                    /\ st.pc = "threw"
                    /\ FetchFailedNaming(st.outcome, st.address, st.chainId,
                                         st.queries[1].cause)
        /\ st.op = "getBalances" =>
              /\ \A p \in 1..Len(st.chainsToCheck) :
                    Cardinality({k \in 1..Len(st.queries) : st.queries[k].pos = p})
                      = IF /\ st.chainsToCheck[p] \in RegistryIds
                           /\ (p < st.i \/ (p = st.i /\ st.pc = "rpc"))
                        THEN 1 ELSE 0
              /\ \A k \in 1..Len(st.queries) :
                    st.queries[k].state = "rejected" =>
                        \E j \in 1..Len(st.logged) :
                            FetchFailedNaming(st.logged[j].error, st.address,
                                              st.queries[k].chainId,
                                              st.queries[k].cause)

\* C10 witness: getBalances(addr, [8453, 8453]) with both queries failed:
\* two queries, one per occurrence, and an empty result.
C10_Witness ==
    \E c \in EvmCalls :
        /\ evm[c].op = "getBalances" /\ evm[c].pc = "returned"
        /\ evm[c].chainsToCheck = <<8453, 8453>>
        /\ Len(evm[c].queries) = 2
        /\ \A k \in 1..2 : evm[c].queries[k].state = "rejected"
        /\ evm[c].outcome = <<>>

\* What the Stellar claims speak of, read off a session's outbound calls.
\* account-not-found, as the catch tests it
NotFoundError(error) ==
    error.status = 404 \/ MessageIncludesNotFound(error.message)

\* the outbound calls made for the n-th configured network, in order
NetEvents(st, n) == SelectSeq(st.outbound, LAMBDA e : e.net = n)

CallsOf(events) == [k \in 1..Len(events) |-> events[k].call]

IsPrefix(s, t) == Len(s) <= Len(t) /\ s = SubSeq(t, 1, Len(s))

\* the n-th network's first load failed with account-not-found on testnet
NotFoundOnTestnet(st, n) ==
    LET events == NetEvents(st, n)
    IN  /\ events # <<>>
        /\ events[1].call = "loadAccount" /\ events[1].state = "rejected"
        /\ NotFoundError(events[1].error)
        /\ st.networks[n].chainId = 2

\* the faucet call for the n-th network succeeded: HTTP OK, body read
FaucetSucceeded(st, n) ==
    LET events == NetEvents(st, n)
    IN  /\ Len(events) >= 3
        /\ events[2].call = "friendbot" /\ events[2].state = "resolved"
        /\ events[2].error.status = 200
        /\ events[3].call = "response.json" /\ events[3].state = "resolved"

\* the loop is through with the n-th network
NetworkFinished(st, n) ==
    \/ st.pc \in {"loop", "load", "fetch", "json", "delay", "retry", "returned"}
          /\ n < st.n
    \/ st.pc = "returned"
    \/ st.pc = "threw" /\ n <= st.n

\* C2: when the testnet load fails with account-not-found, the faucet call
\* succeeds and the retry load fails too, the call does not fail: the retry's
\* failure is not raised to the caller.
C2_RetryFailureNotRaised ==
    \A s \in Sessions : \A n \in 1..Len(stl[s].networks) :
        LET events == NetEvents(stl[s], n)
        IN  ( /\ NotFoundOnTestnet(stl[s], n)
              /\ FaucetSucceeded(stl[s], n)
              /\ Len(events) = 5
              /\ events[5].call = "loadAccount"
              /\ events[5].state = "rejected" )
            => stl[s].pc # "threw"

\* C3: when a call of getBalancesForAllNetworks or getBalances is over, every
\* configured network has had its account load attempted and every requested
\* registered chain its query, whatever happened to the ones before it.
C3_EveryNetworkQueried ==
    /\ \A s \in Sessions :
          stl[s].pc \in {"returned", "threw"} =>
              \A n \in 1..Len(stl[s].networks) :
                  \E k \in 1..Len(stl[s].outbound) :
                      /\ stl[s].outbound[k].call = "loadAccount"
                      /\ stl[s].outbound[k].net = n
    /\ \A c \in EvmCalls :
          (evm[c].op = "getBalances" /\ evm[c].pc \in {"returned", "threw"}) =>
              \A p \in 1..Len(evm[c].chainsToCheck) :
                  evm[c].chainsToCheck[p] \in RegistryIds =>
                      \E k \in 1..Len(evm[c].queries) : evm[c].queries[k].pos = p

\* the step that answers a load with such a failure appends the one
\* placeholder, issues no call and moves on
C4_PlaceholderStep(s) ==
    LET st == stl[s]
        after == stl'[s]
        network == st.networks[st.n]
        answer == after.outbound[Len(st.outbound)]
    IN  ( /\ st.pc = "load"
          /\ answer.state = "rejected"
          /\ ~(NotFoundError(answer.error) /\ network.chainId = 2) )
        => /\ after.allBalances =
                Append(st.allBalances,
                       [balance |-> Dec(<<0>>, <<>>),
                        formatted |-> Dec(<<0>>, <<0, 0, 0, 0, 0, 0, 0>>),
                        chainId |-> network.chainId,
                        currency |-> "XLM",
                        decimals |-> 7,
                        chainName |-> network.chainName])
           /\ Len(after.outbound) = Len(st.outbound)
           /\ after.pc = "loop" /\ after.n = st.n + 1

\* a network whose load failed so has had that one call only
C4_NoOtherCall(s) ==
    \A n \in 1..Len(stl[s].networks) :
        LET events == NetEvents(stl[s], n)
        IN  ( /\ events # <<>>
              /\ events[1].state = "rejected"
              /\ ~(NotFoundError(events[1].error)
                      /\ stl[s].networks[n].chainId = 2) )
            => Len(events) = 1

\* C4: a load that fails with anything but account-not-found on testnet
\* appends exactly one placeholder for that network (balance "0", formatted
\* "0.0000000", currency "XLM", decimals 7, the network's chain id and name)
\* and moves on to the next network: no faucet call is made, and no other
\* call is ever made for that network.
C4_PlaceholderOnOtherFailure ==
    /\ [][\A s \in Sessions : C4_PlaceholderStep(s)]_vars
    /\ [](\A s \in Sessions : C4_NoOtherCall(s))

\* C4 witness: the account is not found on mainnet and the call returned
\* mainnet's placeholder after a single load.
C4_Witness ==
    \E s \in Sessions :
        /\ stl[s].pc = "returned"
        /\ Len(stl[s].networks) = 1 /\ stl[s].networks[1].chainId = 1
        /\ Len(stl[s].outbound) = 1
        /\ stl[s].outbound[1].state = "rejected"
        /\ stl[s].outbound[1].error.status = 404
        /\ Len(stl[s].outcome) = 1 /\ stl[s].outcome[1].balance = Dec(<<0>>, <<>>)

\* C5 as stated: once a call is through with a testnet network whose first
\* load failed with account-not-found, it has made for it one faucet call,
\* then one settle delay, then one retry load, and nothing else.
C5_FaucetDelayRetryAlways ==
    \A s \in Sessions : \A n \in 1..Len(stl[s].networks) :
        (NotFoundOnTestnet(stl[s], n) /\ NetworkFinished(stl[s], n)) =>
            SelectSeq(CallsOf(NetEvents(stl[s], n)),
                      LAMBDA call : call # "response.json")
              = <<"loadAccount", "friendbot", "setTimeout", "loadAccount">>

\* C5 amended: after such a failure exactly one faucet call is made; if it
\* succeeds (HTTP OK and body read) one settle delay of 3000 ms and then
\* exactly one retry load follow, in this order; if it fails, neither
\* follows; there is never a third load of that network.
C5_FaucetThenDelayThenRetryOnce ==
    \A s \in Sessions : \A n \in 1..Len(stl[s].networks) :
        LET events == NetEvents(stl[s], n)
            calls == CallsOf(events)
        IN  NotFoundOnTestnet(stl[s], n) =>
              /\ Len(events) >= 2
              /\ IsPrefix(calls, <<"loadAccount", "friendbot", "response.json",
                                   "setTimeout", "loadAccount">>)
              /\ Len(events) >= 4 =>
                    FaucetSucceeded(stl[s], n) /\ events[4].arg = 3000
              /\ Len(events) = 5 => events[4].state = "resolved"
              /\ NetworkFinished(stl[s], n) =>
                    IF FaucetSucceeded(stl[s], n)
                    THEN Len(events) = 5
                    ELSE Len(events) \in {2, 3}

\* C5 witness: a call returned after the full sequence on testnet: load
\* (not found), faucet, body, delay, retry.
C5_Witness ==
    \E s \in Sessions :
        /\ stl[s].pc = "returned"
        /\ NotFoundOnTestnet(stl[s], 1)
        /\ CallsOf(NetEvents(stl[s], 1)) =
              <<"loadAccount", "friendbot", "response.json", "setTimeout",
                "loadAccount">>

\* C6: a faucet call is made only for a network of chain id 2 (never for
\* mainnet 1 or futurenet 3), only right after that network's load failed
\* with account-not-found, and at most once for each configured network.
C6_FaucetTestnetOnlyOnce ==
    \A s \in Sessions :
        LET log == stl[s].outbound IN
        /\ \A k \in 1..Len(log) :
              log[k].call = "friendbot" =>
                  /\ stl[s].networks[log[k].net].chainId = 2
                  /\ stl[s].networks[log[k].net].server = "testnet"
                  /\ k > 1
                  /\ log[k - 1].call = "loadAccount" /\ log[k - 1].net = log[k].net
                  /\ log[k - 1].state = "rejected"
                  /\ NotFoundError(log[k - 1].error)
        /\ \A n \in 1..Len(stl[s].networks) :
              Cardinality({k \in 1..Len(log) :
                              log[k].call = "friendbot" /\ log[k].net = n}) <= 1

\* C6 witness: with networks [mainnet, testnet], not found on both: mainnet
\* got no faucet call, testnet got one.
C6_Witness ==
    \E s \in Sessions :
        /\ ChainIdsOf(stl[s].networks) = <<1, 2>>
        /\ CallsOf(NetEvents(stl[s], 1)) = <<"loadAccount">>
        /\ NotFoundError(NetEvents(stl[s], 1)[1].error)
        /\ Len(NetEvents(stl[s], 2)) >= 2
        /\ NetEvents(stl[s], 2)[2].call = "friendbot"

\* the step that answers a load, first or retry, with an account appends
\* the account's line items as entries and nothing else
C8_EntriesStep(s) ==
    LET st == stl[s]
        after == stl'[s]
        network == st.networks[st.n]
        answer == after.outbound[Len(st.outbound)]
        items == answer.value
        base == Len(st.allBalances)
    IN  (st.pc \in {"load", "retry"} /\ answer.state = "resolved")
        => /\ Len(after.allBalances) = base + Len(items)
           /\ SubSeq(after.allBalances, 1, base) = st.allBalances
           /\ \A k \in 1..Len(items) :
                 LET entry == after.allBalances[base + k] IN
                 /\ entry.balance = items[k].balance
                 /\ entry.chainId = network.chainId
                 /\ entry.chainName = network.chainName
                 /\ entry.decimals = 7
                 /\ entry.currency = IF items[k].asset_type = "native"
                                      THEN "XLM" ELSE items[k].asset_code

\* C8: a load that succeeds, first or retry, appends exactly one entry per
\* balance line item, in ledger order, each with the item's balance string,
\* the network's chain id and name, decimals 7, and currency "XLM" for the
\* native asset or the asset code otherwise.
C8_OneEntryPerLineItem == [][\A s \in Sessions : C8_EntriesStep(s)]_vars

\* C8 witness: on testnet the retry after funding loaded an account with an
\* issued asset and the native one; the call returned USDC then XLM.
C8_Witness ==
    \E s \in Sessions :
        /\ stl[s].pc = "returned"
        /\ Len(stl[s].outbound) = 5
        /\ stl[s].outbound[5].state = "resolved"
        /\ Len(stl[s].outbound[5].value) = 2
        /\ Len(stl[s].outcome) = 2
        /\ stl[s].outcome[1].currency = "USDC" /\ stl[s].outcome[2].currency = "XLM"

\* the chain a /native request asked for is registered: its chainId text is
\* the numeral of a Registry id
AskedRegistered(st) ==
    st.chainId.text \in {Numeral(id) : id \in RegistryIds}

\* a chain id was supplied: the parameter is there and not empty
Supplied(st) == st.chainId.given /\ st.chainId.text # <<>>

\* C11: at the /native endpoint every supplied chain id that is not in the
\* Registry is answered with UNSUPPORTED_CHAIN, and a balance is reported
\* only for the chain the caller asked for, 8453 standing in only when no
\* chain id was supplied.
C11_UnknownChainIdRejected ==
    \A c \in EvmCalls :
        LET st == native[c]
        IN  (st.pc = "responded" /\ HasAddressFormat(st.walletAddress)) =>
                /\ (Supplied(st) /\ ~AskedRegistered(st)) =>
                       /\ ~st.response.success
                       /\ st.response.code = "UNSUPPORTED_CHAIN"
                /\ st.response.success =>
                       IF Supplied(st)
                       THEN st.chainId.text = Numeral(st.response.chainId)
                       ELSE st.response.chainId = DefaultChainId

\* C12: getBalances called without a chainIds list queries exactly the
\* Registry-known chains, each once, in Registry order: its queries follow
\* the Registry from the start, and cover it when the call returns.
C12_DefaultQueriesRegistry ==
    \A c \in EvmCalls :
        LET st == evm[c]
        IN  (st.op = "getBalances" /\ ~st.chainIds.given) =>
                /\ IsPrefix(ChainIdsOf(st.queries), RegistryOrder)
                /\ st.pc = "returned" => ChainIdsOf(st.queries) = RegistryOrder

C12_Witness ==
    \E c \in EvmCalls :
        /\ evm[c].op = "getBalances" /\ ~evm[c].chainIds.given
        /\ evm[c].pc = "returned"
        /\ Len(evm[c].queries) = Len(CHAINS)
        /\ Len(CHAINS) > 1

\* the names a session was asked for, and the supported ones with their ids
RequestedNames(st) == NetworksToUse(st.args.requestedNetworks)

SupportedNames == {"mainnet", "testnet", "futurenet"}

SyntheticId(name) ==
    CASE name = "mainnet" -> 1 [] name = "testnet" -> 2 [] name = "futurenet" -> 3

\* C13: constructing a session with a name that is not mainnet, testnet or
\* futurenet fails at once (no outbound call) with the unsupported-network
\* error; every network of a constructed session has the id of its name,
\* 1, 2 or 3, never 999.
C13_UnknownNetworkRejected ==
    \A s \in Sessions :
        LET st == stl[s]
            names == RequestedNames(st)
        IN  /\ (st.pc # "idle" /\ st.args.privateKey \in ValidSecrets
                    /\ \E k \in 1..Len(names) : names[k] \notin SupportedNames) =>
                   /\ st.pc = "ctorThrew"
                   /\ st.outbound = <<>>
                   /\ st.outcome.msg = "Unsupported network: ${network}"
                   /\ st.outcome.args[1] \notin SupportedNames
            /\ st.pc \notin {"idle", "ctorThrew"} =>
                   /\ Len(st.networks) = Len(names)
                   /\ \A k \in 1..Len(names) :
                          /\ names[k] \in SupportedNames
                          /\ st.networks[k].chainId = SyntheticId(names[k])
                          /\ st.networks[k].chainId # 999

\* the entry carries chainId, with the symbol and decimals the Registry holds
\* under chainId
EntryOfRegistry(entry, chainId) ==
    /\ entry.chainId = chainId
    /\ \E k \in 1..Len(CHAINS) :
           /\ CHAINS[k].chainId = chainId
           /\ entry.currency = CHAINS[k].symbol
           /\ entry.decimals = CHAINS[k].decimals

\* C14: every entry of getBalance and getBalances carries the chain id that
\* was requested for it, with the currency symbol and decimals of the
\* Registry config under that id; every entry of getBalancesForAllNetworks,
\* real or placeholder, has decimals 7.
C14_EntryMatchesRegistry ==
    /\ \A c \in EvmCalls :
           LET st == evm[c]
               answered == ResolvedQueries(st)
           IN  /\ (st.op = "getBalance" /\ st.pc = "returned") =>
                      EntryOfRegistry(st.outcome, st.chainId)
               /\ st.op = "getBalances" =>
                      /\ Len(st.results) = Len(answered)
                      /\ \A k \in 1..Len(st.results) :
                             /\ answered[k].chainId = Requested(st)[answered[k].pos]
                             /\ EntryOfRegistry(st.results[k], answered[k].chainId)
                      /\ st.pc = "returned" => st.outcome = st.results
    /\ \A s \in Sessions :
           /\ \A k \in 1..Len(stl[s].allBalances) :
                  stl[s].allBalances[k].decimals = 7
           /\ stl[s].pc = "returned" =>
                  \A k \in 1..Len(stl[s].outcome) : stl[s].outcome[k].decimals = 7

\* C14 witness: getBalance for Sepolia, not the first chain of the Registry,
\* returned its entry.
C14_Witness ==
    \E c \in EvmCalls :
        /\ evm[c].op = "getBalance" /\ evm[c].pc = "returned"
        /\ evm[c].chainId = 11155111
        /\ evm[c].outcome.chainId = 11155111
        /\ evm[c].outcome.decimals = 18

\* the number of the draw of fresh entropy a generated wallet came from
DrawOf(st, wallet) == (wallet.privateKey.key.id - st.epoch) \div 2

\* C15: generateMultipleWallets with 1 <= count <= 100 generates one wallet
\* after another and is all-or-nothing: it returns exactly count wallets in
\* the order generated, or stops at the first generation that fails and
\* throws the error naming that wallet's 1-based index, returning no list.
C15_BatchAllOrNothing ==
    (wal.op = "generateMultipleWallets" /\ wal.args.count \in 1..MaxBatch) =>
        /\ wal.i = Len(wal.wallets) /\ wal.i <= wal.args.count
        /\ \A k \in 1..Len(wal.wallets) : DrawOf(wal, wal.wallets[k]) = k
        /\ wal.pc = "loop" => wal.attempts = wal.i
        /\ wal.pc = "returned" =>
               /\ wal.outcome = wal.wallets
               /\ Len(wal.outcome) = wal.args.count
               /\ wal.attempts = wal.args.count
        /\ wal.pc = "threw" =>
               /\ wal.outcome.msg = "Failed to generate wallet ${i + 1}"
               /\ wal.outcome.args = <<wal.attempts>>
               /\ Len(wal.wallets) = wal.attempts - 1
               /\ wal.attempts <= wal.args.count

\* C15 witness: a batch of three whose second generation failed.
C15_Witness ==
    /\ wal.op = "generateMultipleWallets" /\ wal.args.count = 3
    /\ wal.pc = "threw"
    /\ wal.outcome.args = <<2>>
    /\ Len(wal.wallets) = 1

\* the batch call failed with one of the two invalid-count errors
InvalidCountThrown(st) ==
    /\ st.pc = "threw"
    /\ st.outcome.msg \in {"Count must be greater than 0",
                           "Cannot generate more than 100 wallets at once"}

\* C16: generateMultipleWallets fails with an invalid-count error for every
\* count <= 0 and every count > 100, before any wallet is generated; for a
\* count in 1..100 it does not fail with that error.
C16_InvalidCountFailsFast ==
    wal.op = "generateMultipleWallets" =>
        /\ (wal.args.count <= 0 \/ wal.args.count > 100) =>
               /\ InvalidCountThrown(wal)
               /\ wal.attempts = 0 /\ wal.drawn = 0 /\ wal.wallets = <<>>
        /\ wal.args.count \in 1..100 => ~InvalidCountThrown(wal)

\* C16 witness: a batch of 101 was refused, and nothing was generated.
C16_Witness ==
    /\ wal.op = "generateMultipleWallets" /\ wal.args.count = 101
    /\ InvalidCountThrown(wal)
    /\ wal.attempts = 0

\* the wallet's address is, letter case aside, the address derived again
\* from its private key
AddressOfOwnKey(wallet) ==
    toLowerCase(wallet.address)
        = toLowerCase(privateKeyToAccount(wallet.privateKey).address)

\* the mnemonic's account and its HD private key disagree on the address
Disagree(m) ==
    /\ MnemonicToAccountThrows(m) = {}
    /\ mnemonicToAccount(m).hdPrivateKey # {}
    /\ ~AddressOfOwnKey([address |-> mnemonicToAccount(m).address,
                         privateKey |-> extractPrivateKey(mnemonicToAccount(m))])

\* C17: generateWallet(EVM) never returns a WalletInfo whose address differs,
\* letter case aside, from the address derived again from the returned
\* private key; when the two disagree the generation fails.
C17_EvmAddressMatchesKey ==
    /\ (wal.op = "generateWallet" /\ wal.args.network = "evm") =>
           /\ wal.pc = "returned" => AddressOfOwnKey(wal.outcome)
           /\ \A m \in wal.args.mnemonic :
                  Disagree(m) =>
                      /\ wal.pc = "threw"
                      /\ wal.outcome.msg = "EVM wallet generation failed: ${message}"
    /\ (wal.op = "generateMultipleWallets" /\ wal.args.network = "evm") =>
           \A k \in 1..Len(wal.wallets) : AddressOfOwnKey(wal.wallets[k])

\* C17 witness: a mnemonic whose account and key disagree was given, and the
\* generation failed on the address mismatch.
C17_Witness ==
    /\ wal.op = "generateWallet" /\ wal.args.network = "evm"
    /\ \E m \in wal.args.mnemonic : Disagree(m)
    /\ wal.pc = "threw"
    /\ wal.outcome.args
           = <<"Address mismatch between mnemonic and private key derivation">>

\* the call that has just ended, in the shape of the one remembered
Current ==
    [op |-> wal.op, args |-> wal.args, pc |-> wal.pc, outcome |-> wal.outcome]

\* the two wallets have the same address, public key and private key
SameKeys(w1, w2) ==
    /\ w1.address = w2.address
    /\ w1.publicKey = w2.publicKey
    /\ w1.privateKey = w2.privateKey

\* a and b were called with the same mnemonic for the same family
SameMnemonicAndFamily(a, b) ==
    /\ a.args.mnemonic = b.args.mnemonic
    /\ a.args.network = b.args.network
    /\ a.args.network \in {"evm", "stellar"}

\* two recoveries gave the same outcome
RecoverTwice(a, b) ==
    (a.op = "recoverWalletFromMnemonic" /\ b.op = "recoverWalletFromMnemonic") =>
        /\ a.pc = b.pc
        /\ a.pc = "returned" => SameKeys(a.outcome, b.outcome)

\* what generateWallet returned with the mnemonic, recovery returns too
RecoverAsGenerated(gen, rec) ==
    (gen.op = "generateWallet" /\ rec.op = "recoverWalletFromMnemonic"
         /\ gen.pc = "returned") =>
        /\ rec.pc = "returned"
        /\ SameKeys(gen.outcome, rec.outcome)

\* the claim for the mnemonics of the set M, on the last two calls
RecoverDeterministicFor(M) ==
    /\ wal.op = "recoverWalletFromMnemonic" => wal.drawn = 0
    /\ (wal.pc \in {"returned", "threw"}
            /\ SameMnemonicAndFamily(wal.prev, Current)
            /\ wal.args.mnemonic \subseteq M /\ wal.args.mnemonic # {}) =>
           /\ RecoverTwice(wal.prev, Current)
           /\ RecoverAsGenerated(wal.prev, Current)
           /\ RecoverAsGenerated(Current, wal.prev)

\* C18 (as stated): for every mnemonic m and each family, two calls of
\* recoverWalletFromMnemonic return the same address, public key and private
\* key, and these are the ones generateWallet(f, {mnemonic: m}) returns.
C18_RecoverMatchesGenerateEveryMnemonic == RecoverDeterministicFor(CallerMnemonics)

\* C18 (amended): the same for every mnemonic that is not the empty string.
C18_RecoverMatchesGenerate ==
    RecoverDeterministicFor(CallerMnemonics \ {EmptyMnemonic})

\* C18 witness: a Stellar wallet generated from a mnemonic, then recovered
\* from the same mnemonic.
C18_Witness ==
    /\ wal.prev.op = "generateWallet" /\ wal.prev.pc = "returned"
    /\ wal.op = "recoverWalletFromMnemonic" /\ wal.pc = "returned"
    /\ SameMnemonicAndFamily(wal.prev, Current)
    /\ wal.args.network = "stellar"
    /\ wal.args.mnemonic # {} /\ EmptyMnemonic \notin wal.args.mnemonic

\* the call before returned a Stellar wallet from generateWallet, and the
\* call that has just ended was the import of that wallet's secret
ImportedGenerated ==
    /\ wal.prev.op = "generateWallet" /\ wal.prev.args.network = "stellar"
    /\ wal.prev.pc = "returned"
    /\ wal.op = "importWalletFromPrivateKey" /\ wal.args.network = "stellar"
    /\ wal.pc \in {"returned", "threw"}
    /\ wal.args.privateKey = wal.prev.outcome.secret

\* C19: importing the secret of a wallet that generateWallet(STELLAR)
\* returned succeeds, gives the same address and public key, has privateKey
\* and secret equal to that secret, and draws no fresh entropy.
C19_StellarImportRoundTrip ==
    ImportedGenerated =>
        /\ wal.pc = "returned"
        /\ wal.outcome.address = wal.prev.outcome.address
        /\ wal.outcome.publicKey = wal.prev.outcome.publicKey
        /\ {wal.outcome.privateKey} = wal.prev.outcome.secret
        /\ wal.outcome.secret = wal.prev.outcome.secret
        /\ wal.drawn = 0

\* C19 witness: a Stellar wallet from a random keypair, then imported.
C19_Witness ==
    /\ ImportedGenerated
    /\ wal.prev.args.mnemonic = {}
    /\ wal.pc = "returned"

\* the hexadecimal characters, and the upper-case letters and digits
HexadecimalChars ==
    {"0", "1", "2", "3", "4", "5", "6", "7", "8", "9",
     "a", "b", "c", "d", "e", "f", "A", "B", "C", "D", "E", "F"}

UpperAlphanumericChars ==
    {"0", "1", "2", "3", "4", "5", "6", "7", "8", "9",
     "A", "B", "C", "D", "E", "F", "G", "H", "I", "J", "K", "L", "M",
     "N", "O", "P", "Q", "R", "S", "T", "U", "V", "W", "X", "Y", "Z"}

\* "0x" followed by exactly 40 hexadecimal characters
IsEvmFormat(text) ==
    /\ Len(text) = 2 + 40
    /\ text[1] = "0" /\ text[2] = "x"
    /\ \A k \in 3..Len(text) : text[k] \in HexadecimalChars

\* "G" followed by exactly 55 characters from A-Z and 0-9
IsStellarFormat(text) ==
    /\ Len(text) = 1 + 55
    /\ text[1] = "G"
    /\ \A k \in 2..Len(text) : text[k] \in UpperAlphanumericChars

\* C20: validateWalletAddress never throws and returns a boolean: for EVM
\* true exactly for "0x" and 40 hexadecimal characters, for Stellar true
\* exactly for "G" and 55 characters of A-Z and 0-9, false for any other
\* family; asked twice about the same input it answers the same.
C20_ValidateAddressFormat ==
    wal.op = "validateWalletAddress" =>
        /\ wal.pc = "returned"
        /\ wal.drawn = 0
        /\ wal.outcome \in BOOLEAN
        /\ wal.outcome =
               CASE wal.args.network = "evm" -> IsEvmFormat(wal.args.address)
                 [] wal.args.network = "stellar" -> IsStellarFormat(wal.args.address)
                 [] OTHER -> FALSE
        /\ (wal.prev.op = "validateWalletAddress" /\ wal.prev.args = wal.args) =>
               wal.prev.outcome = wal.outcome

\* C20 witness: a well-formed EVM address asked about twice, accepted twice.
C20_Witness ==
    /\ wal.op = "validateWalletAddress" /\ wal.args.network = "evm"
    /\ wal.prev.op = "validateWalletAddress" /\ wal.prev.args = wal.args
    /\ IsEvmFormat(wal.args.address)
    /\ wal.outcome = TRUE

\* the messages of the causes a wallet operation can fail from
CauseMessages ==
    {"Invalid mnemonic", "Failed to extract private key from mnemonic",
     "Address mismatch between mnemonic and private key derivation",
     "invalid private key", "invalid encoded string",
     "Unsupported network: ${network}",
     "Unsupported network for recovery: ${network}",
     "Unsupported network for import: ${network}"}

\* the error's message is, or has inside it, the message text
Carries(error, text) ==
    error.msg = text \/ \E k \in 1..Len(error.args) : error.args[k] = text

\* the cause the arguments of a failed call point to, where they name one
CauseOf(st) ==
    IF st.args.network \notin {"evm", "stellar"}
    THEN CASE st.op = "generateWallet" -> {"Unsupported network: ${network}"}
           [] st.op = "recoverWalletFromMnemonic" ->
                  {"Unsupported network for recovery: ${network}"}
           [] OTHER -> {"Unsupported network for import: ${network}"}
    ELSE IF st.op = "importWalletFromPrivateKey"
    THEN IF st.args.network = "evm" THEN {"invalid private key"}
         ELSE {"invalid encoded string"}
    ELSE IF st.op = "recoverWalletFromMnemonic"
    THEN {"Invalid mnemonic", "Failed to extract private key from mnemonic"}
    ELSE CauseMessages

\* C21: every failure of generateWallet, recoverWalletFromMnemonic and
\* importWalletFromPrivateKey reaches the caller as a WalletServiceError
\* whose message carries the message of the cause; no other kind of error
\* leaves these operations.
C21_FailuresAreWalletServiceErrors ==
    (wal.op \in {"generateWallet", "recoverWalletFromMnemonic",
                 "importWalletFromPrivateKey"} /\ wal.pc = "threw") =>
        /\ wal.outcome.name = "WalletServiceError"
        /\ \E text \in CauseOf(wal) : Carries(wal.outcome, text)

\* C21 witness: the import of a text that is no Stellar secret failed with
\* the service's error around the SDK's message.
C21_Witness ==
    /\ wal.op = "importWalletFromPrivateKey" /\ wal.args.network = "stellar"
    /\ wal.pc = "threw"
    /\ wal.outcome.name = "WalletServiceError"
    /\ wal.outcome.args = <<"invalid encoded string">>

\* every call of the log but the last one has completed or failed
OneAtATime(log) == \A k \in 1..Len(log) - 1 : log[k].state # "pending"

\* the queries of a log go through the chain list from its start to its end
InListOrder(queries) ==
    \A j, k \in 1..Len(queries) : j < k => queries[j].pos < queries[k].pos

\* the calls of a log go through the networks from the first to the last
InNetworkOrder(outbound) ==
    \A j, k \in 1..Len(outbound) : j < k => outbound[j].net <= outbound[k].net

\* C24: within one getBalances call and within one getBalancesForAllNetworks
\* call at most one outbound call is outstanding at any time: a call is
\* started only after every call before it, faucet call and retry included,
\* has completed or failed, and the calls follow the order of the list.
C24_OneOutboundCallAtATime ==
    /\ \A c \in EvmCalls :
           evm[c].op = "getBalances" =>
               /\ OneAtATime(evm[c].queries)
               /\ InListOrder(evm[c].queries)
               /\ (evm[c].pc # "rpc" =>
                       \A k \in 1..Len(evm[c].queries) :
                           evm[c].queries[k].state # "pending")
    /\ \A s \in Sessions :
           /\ OneAtATime(stl[s].outbound)
           /\ InNetworkOrder(stl[s].outbound)
           /\ (stl[s].pc \notin {"load", "fetch", "json", "delay", "retry"} =>
                   \A k \in 1..Len(stl[s].outbound) :
                       stl[s].outbound[k].state # "pending")

\* C24 witness: the retry of a load is outstanding after the first load, the
\* faucet call, the reading of its body and the delay have all ended.
C24_Witness ==
    \E s \in Sessions :
        /\ stl[s].pc = "retry"
        /\ Len(stl[s].outbound) >= 5
        /\ stl[s].outbound[Len(stl[s].outbound)].call = "loadAccount"
        /\ stl[s].outbound[Len(stl[s].outbound)].state = "pending"
        /\ OneAtATime(stl[s].outbound)

\* the faucet call for the n-th network failed: the fetch was rejected or
\* answered with a status that is not OK, or its body could not be read
FaucetFailed(st, n) ==
    LET events == NetEvents(st, n)
    IN  /\ Len(events) >= 2
        /\ events[2].call = "friendbot"
        /\ \/ events[2].state = "rejected"
           \/ events[2].state = "resolved" /\ events[2].error.status # 200
           \/ Len(events) >= 3 /\ events[3].state = "rejected"

\* the step in which the faucet call fails adds no entry, starts no call and
\* moves to the next network without failing
C26_FaucetFailedStep(s) ==
    LET st == stl[s]
        after == stl'[s]
        answer == after.outbound[Len(st.outbound)]
    IN  ( /\ st.pc \in {"fetch", "json"}
          /\ \/ answer.state = "rejected"
             \/ st.pc = "fetch" /\ answer.state = "resolved"
                   /\ answer.error.status # 200 )
        => /\ after.allBalances = st.allBalances
           /\ Len(after.outbound) = Len(st.outbound)
           /\ after.pc = "loop" /\ after.n = st.n + 1

\* a network whose faucet call failed has had no delay and no second load,
\* the call did not fail on it, and the network after it has been loaded
\* once the call is over
C26_NoDelayNoRetry(s) ==
    \A n \in 1..Len(stl[s].networks) :
        LET events == NetEvents(stl[s], n)
        IN  (NotFoundOnTestnet(stl[s], n) /\ FaucetFailed(stl[s], n)) =>
                /\ Len(events) \in {2, 3}
                /\ \A k \in 2..Len(events) :
                       events[k].call \notin {"setTimeout", "loadAccount"}
                /\ stl[s].pc = "threw" => stl[s].n > n
                /\ (stl[s].pc \in {"returned", "threw"}
                        /\ n < Len(stl[s].networks)) =>
                       NetEvents(stl[s], n + 1) # <<>>

\* C26: when the load fails with account-not-found on testnet and the faucet
\* call fails (a response that is not OK, or a network error), the call
\* makes no settle delay and no retry load for that network, adds no entry
\* for it, real or placeholder, does not raise the failure, and goes on to
\* the next network.
C26_FaucetFailureSkipsNetwork ==
    /\ [][\A s \in Sessions : C26_FaucetFailedStep(s)]_vars
    /\ [](\A s \in Sessions : C26_NoDelayNoRetry(s))

\* C26 witness: testnet's faucet call was rejected; the call returned with
\* no entry for testnet.
C26_Witness ==
    \E s \in Sessions :
        /\ stl[s].pc = "returned"
        /\ ChainIdsOf(stl[s].networks) = <<2>>
        /\ NotFoundOnTestnet(stl[s], 1)
        /\ Len(stl[s].outbound) = 2
        /\ stl[s].outbound[2].call = "friendbot"
        /\ stl[s].outbound[2].state = "rejected"
        /\ stl[s].outcome = <<>>

\* the session holds the keypair and the networks it was constructed with
AsConstructed(st) ==
    /\ st.keypair = st.args.privateKey
    /\ st.networks
           = Constructed(st.args.privateKey, st.args.requestedNetworks).networks

\* a step of a constructed session that is not dropped keeps its keypair,
\* its networks and the arguments it was built from
C30_SessionStep(s) ==
    (stl[s].pc \notin {"idle", "ctorThrew"} /\ stl'[s].pc # "idle") =>
        /\ stl'[s].keypair = stl[s].keypair
        /\ stl'[s].networks = stl[s].networks
        /\ stl'[s].args = stl[s].args

\* C30: configuration is frozen after construction: no step of a
\* getBalancesForAllNetworks call changes the keypair or the set of networks
\* of its session, and no getBalance, getBalances or getSupportedChains call
\* changes the client map of the BalanceService.
C30_ConfigurationFrozen ==
    /\ [][publicClients' = publicClients]_vars
    /\ [](publicClients = createPublicClients)
    /\ [][\A s \in Sessions : C30_SessionStep(s)]_vars
    /\ [](\A s \in Sessions :
              stl[s].pc \notin {"idle", "ctorThrew"} => AsConstructed(stl[s]))

\* C30 witness: a call over two networks has returned, the session still
\* as constructed.
C30_Witness ==
    \E s \in Sessions :
        /\ stl[s].pc = "returned"
        /\ Len(stl[s].networks) = 2
        /\ Len(stl[s].outbound) >= 2
        /\ AsConstructed(stl[s])
        /\ publicClients = createPublicClients

\* what a getBalances call running alone has in its list after the answers
\* it has had: one entry per query that resolved, in the order asked, for
\* the chain asked and with the value answered
AloneResults(st) ==
    LET answered == ResolvedQueries(st)
    IN  [k \in 1..Len(answered) |->
            WithChainName(GetBalanceEntry(st.address, answered[k].chainId,
                                          answered[k].value),
                          answered[k].chainId)]

\* what one answered call of a session adds to the list of a
\* getBalancesForAllNetworks call running alone
AloneAdded(st, event) ==
    IF event.call # "loadAccount" THEN <<>>
    ELSE IF event.state = "resolved"
    THEN BalanceEntries(st.networks[event.net], event.value)
    ELSE IF event.state = "rejected"
            /\ ~(NotFoundError(event.error) /\ st.networks[event.net].chainId = 2)
            /\ Len(SelectSeq(NetEvents(st, event.net),
                             LAMBDA e : e.call = "loadAccount")) = 1
    THEN <<PlaceholderEntry(st.networks[event.net])>>
    ELSE <<>>

RECURSIVE AloneBalancesUpTo(_, _)
AloneBalancesUpTo(st, k) ==
    IF k = 0 THEN <<>>
    ELSE AloneBalancesUpTo(st, k - 1) \o AloneAdded(st, st.outbound[k])

AloneBalances(st) == AloneBalancesUpTo(st, Len(st.outbound))

\* every query of the call is for the call's own address and for a chain of
\* its own list
OwnQueries(st) ==
    \A k \in 1..Len(st.queries) :
        /\ st.queries[k].address = st.address
        /\ st.queries[k].chainId = Requested(st)[st.queries[k].pos]

\* every call of the session is for the session's own account and for one
\* of its own networks
OwnCalls(st) ==
    \A k \in 1..Len(st.outbound) :
        /\ st.outbound[k].net \in 1..Len(st.networks)
        /\ st.outbound[k].call \in {"loadAccount", "friendbot"} =>
               st.outbound[k].arg = PublicKeyOf(st.args.privateKey)

\* C25: getBalances calls on the shared BalanceService and
\* getBalancesForAllNetworks calls on sessions of their own, interleaved at
\* their I/O points, do not interfere: each call asks only for its own
\* address or account and its own chains or networks, and its result is the
\* one the call has running alone with the same answers.
C25_ConcurrentCallsIndependent ==
    /\ \A c \in EvmCalls :
           evm[c].op = "getBalances" =>
               /\ OwnQueries(evm[c])
               /\ evm[c].results = AloneResults(evm[c])
               /\ evm[c].pc = "returned" => evm[c].outcome = AloneResults(evm[c])
    /\ \A s \in Sessions :
           stl[s].pc \notin {"idle", "ctorThrew"} =>
               /\ OwnCalls(stl[s])
               /\ stl[s].allBalances = AloneBalances(stl[s])
               /\ stl[s].pc = "returned" => stl[s].outcome = AloneBalances(stl[s])

\* C25 witness: two getBalances calls for different addresses are both at
\* their second query, each with the entry of its first.
C25_Witness ==
    \E c, d \in EvmCalls :
        /\ c # d
        /\ evm[c].address # evm[d].address
        /\ evm[c].pc = "rpc" /\ evm[d].pc = "rpc"
        /\ Len(evm[c].queries) = 2 /\ Len(evm[d].queries) = 2
        /\ Len(evm[c].results) = 1 /\ Len(evm[d].results) = 1
        /\ evm[c].results # evm[d].results

\* the wallet of the collection that request r holds a copy of
StoredWallet(a, r) ==
    LET wallet == CHOOSE w \in a.req[r].wallet : TRUE
    IN  a.db[wallet.id]

\* request r is a verifyOTP that gets a new token in this step
TokenIssued(r) ==
    /\ auth.req[r].op = "verifyOTP" /\ auth.req[r].pc = "activate"
    /\ auth'.req[r].pc = "responded"
    /\ auth'.req[r].response.token # {}

\* C22: verifyOTP activates a wallet and issues a token only when the OTP of
\* the request equals an OTP that was generated and stored for the wallet
\* and is neither expired nor consumed: once an activation has cleared the
\* OTP, and under interleaved verify requests, a request with no OTP or
\* with an OTP already used gets no token.
C22_TokenOnlyForUnusedOtp ==
    [][\A r \in Requests :
           TokenIssued(r) =>
               /\ auth.req[r].otp # {}
               /\ auth.req[r].otp \subseteq 1..auth.otps
               /\ StoredWallet(auth, r).otp = auth.req[r].otp]_vars

\* request r comes in as a verifyOTP with a valid email in this step
VerifyArrives(r) ==
    /\ auth.req[r].pc = "idle"
    /\ auth'.req[r].op = "verifyOTP"
    /\ auth'.req[r].pc \in {"activate", "responded"}
    /\ auth'.req[r].response.code # "VALIDATION_ERROR"

\* the wallet the collection holds for the one email in use, {} when none
WalletOf(a) == findWalletByEmailAndNetwork(a.db, "ada@crefy.io", AppId, "evm")

\* the step of a verifyOTP request from its arrival to its failure or to
\* the save that activates
C27_VerifyStep(r) ==
    VerifyArrives(r) =>
        LET after == auth'.req[r]
            failed == after.pc = "responded" /\ ~after.response.success
        IN  /\ WalletOf(auth) = {} =>
                   failed /\ after.response.code = "WALLET_NOT_FOUND"
            /\ failed =>
                   /\ after.response.code
                          \in {"WALLET_NOT_FOUND", "INVALID_OTP", "OTP_EXPIRED"}
                   /\ after.response.token = {}
            /\ after.pc = "responded" =>
                   /\ auth'.db = auth.db
                   /\ auth'.issued = auth.issued
            /\ \A w \in WalletOf(auth) :
                   /\ after.pc = "activate" =>
                          /\ w.otp = after.otp
                          /\ ~Expired(w.otpExpiry, auth.expired)
                   /\ (~w.isActive /\ Expired(w.otpExpiry, auth.expired)) =>
                          failed

\* C27: a verifyOTP request that fails (WALLET_NOT_FOUND, INVALID_OTP or
\* OTP_EXPIRED) leaves isActive, otp and otpExpiry of every wallet as they
\* were and issues no token; a request is let through to the activation
\* only with the stored OTP, not expired when it is checked, so an expired
\* OTP never activates an inactive wallet.
C27_FailedVerifyChangesNothing ==
    [][\A r \in Requests : C27_VerifyStep(r)]_vars

\* C27 witness: a verifyOTP request was answered OTP_EXPIRED; the wallet is
\* still inactive and still holds the expired OTP.
C27_Witness ==
    \E r \in Requests :
        /\ auth.req[r].op = "verifyOTP" /\ auth.req[r].pc = "responded"
        /\ auth.req[r].response.code = "OTP_EXPIRED"
        /\ auth.issued = {}
        /\ \E w \in WalletOf(auth) :
               /\ ~w.isActive /\ w.otp # {}
               /\ Expired(w.otpExpiry, auth.expired)

\* request r is a verifyOTP whose copy of wallet k passed the OTP check and
\* whose activating save lands in this step
ActivatedBy(r, k) ==
    /\ auth.req[r].op = "verifyOTP" /\ auth.req[r].pc = "activate"
    /\ auth'.req[r].pc = "responded"
    /\ \E w \in auth.req[r].wallet :
           /\ w.id = k
           /\ validateOTP(w, auth.req[r].otp, 0) = {}

\* one step of the collection: no wallet leaves it, a new one comes in
\* inactive, an active one stays active, and an inactive one becomes active
\* only by the save of a verifyOTP request that passed the OTP check
C28_Step ==
    /\ Len(auth'.db) >= Len(auth.db)
    /\ \A k \in 1..Len(auth'.db) :
           IF k > Len(auth.db) THEN ~auth'.db[k].isActive
           ELSE /\ auth.db[k].isActive => auth'.db[k].isActive
                /\ (~auth.db[k].isActive /\ auth'.db[k].isActive) =>
                       \E r \in Requests : ActivatedBy(r, k)

\* C28: activation is monotonic: a wallet is created with isActive = false,
\* becomes true only inside a verifyOTP request that passed the OTP check,
\* and no operation ever sets it back to false.
C28_ActivationMonotonic == [][C28_Step]_vars

\* C28 witness: an active wallet holds an OTP again: a login or resend has
\* saved a new OTP after the activation, and the wallet is still active.
C28_Witness ==
    \E k \in 1..Len(auth.db) :
        /\ auth.db[k].isActive
        /\ auth.db[k].otp # {}
        /\ auth.issued # {}

\* the two wallets are of the same tenant, email and network
SameIdentity(w1, w2) ==
    /\ w1.appId = w2.appId /\ w1.email = w2.email /\ w1.network = w2.network

\* no two wallets of the collection have the same tenant, email and network
UniquePerIdentity(db) ==
    \A j, k \in 1..Len(db) : j # k => ~SameIdentity(db[j], db[k])

\* request r hands a mail to the mail service in this step
MailHandedBy(r) ==
    /\ auth.req[r].pc \in {"save", "create"}
    /\ auth'.req[r].pc = "mail"

\* the wallet request r holds is in the collection, under the request's
\* email and network
Persisted(a, r) ==
    \E w \in a.req[r].wallet :
        /\ w.id \in 1..Len(a.db)
        /\ a.db[w.id].email = a.req[r].email
        /\ a.db[w.id].network = a.req[r].network
        /\ a.db[w.id].appId = AppId

\* a mail goes out only in a step of a request that hands it over with its
\* wallet in the collection
C23_MailStep ==
    /\ auth'.mail # auth.mail =>
           \E r \in Requests :
               /\ MailHandedBy(r)
               /\ auth'.mail = auth.mail \cup {Mail(auth'.req[r])}
    /\ \A r \in Requests : MailHandedBy(r) => Persisted(auth', r)

\* C23: wallet records are unique per (appId, email, network) under
\* concurrency, two concurrent first-time logins for the same identity
\* included, and an OTP is emailed only by a request whose wallet record
\* was persisted.
C23_UniqueWalletAndMailAfterPersist ==
    /\ [](UniquePerIdentity(auth.db))
    /\ [][C23_MailStep]_vars

\* the answer of the mail service to request r arrives in this step, and
\* the request fails
MailFailedFor(r) ==
    /\ auth.req[r].pc = "mail"
    /\ auth'.req[r].pc = "responded"
    /\ ~auth'.req[r].response.success

\* the OTP of the mail does not verify against wallet w
NoLongerVerifies(w, mail, expired) == validateOTP(w, {mail.otp}, expired) # {}

\* the step that hands the mail of request r over finds the new OTP and its
\* expiry stored, and no OTP mailed before verifies against the wallet; the
\* step in which the send fails answers EMAIL_SEND_FAILED and leaves the
\* collection, the wallet of the request included, as it was
C29_Step(r) ==
    /\ MailHandedBy(r) =>
           LET stored == StoredWallet(auth', r)
           IN  /\ auth'.req[r].op \in {"emailLogin", "resendOTP"}
               /\ stored.otp = {auth'.req[r].newOtp}
               /\ stored.otpExpiry = {auth'.req[r].newOtp}
               /\ auth.req[r].pc = "create" =>
                      /\ ~stored.isActive
                      /\ Len(auth'.db) = Len(auth.db) + 1
               /\ \A mail \in auth.mail :
                      NoLongerVerifies(stored, mail, auth'.expired)
    /\ MailFailedFor(r) =>
           /\ auth'.req[r].response.code = "EMAIL_SEND_FAILED"
           /\ Persisted(auth, r)
           /\ auth'.db = auth.db
           /\ auth'.mail = auth.mail

====
